---- MODULE Spec2Model ----
(***************************************************************************)
(* Model of the CC2650 ROM bootloader client (package ccboot):             *)
(*   - the packet codec (checksum, encodeSize, encodePacket, decodePacket),*)
(*   - the link layer (Sync, recvNonZero, recvByte, sendAck, SendPacket,   *)
(*     RecvPacket),                                                        *)
(*   - the session commands of Device.                                     *)
(* One step of the session model is one call of the transport's Read or    *)
(* Write; the transport's answer is the nondeterministic input of the step.*)
(* Bytes are naturals 0..255 (0xCC = 204, 0x33 = 51, 0x55 = 85).           *)
(***************************************************************************)
EXTENDS Naturals, Sequences, FiniteSets

(***************************************************************************)
(* Program constants                                                       *)
(***************************************************************************)
\* a mutant of numAttempts: one attempt more
numAttempts_more == 3 + 1
\* a mutant of numAttempts: one attempt less
numAttempts_less == 3 - 1

numAttempts == 3
CC_ACK == 204
CC_NACK == 51
CC_SYNC == <<85, 85>>

COMMAND_PING == 32
COMMAND_DOWNLOAD == 33
COMMAND_GET_STATUS == 35
COMMAND_SEND_DATA == 36
COMMAND_RESET == 37
COMMAND_SECTOR_ERASE == 38
COMMAND_CRC32 == 39
COMMAND_GET_CHIP_ID == 40
COMMAND_MEMORY_READ == 42
COMMAND_MEMORY_WRITE == 43
COMMAND_BANK_ERASE == 44
COMMAND_SET_CCFG == 45

SendDataMaxSize == 252
ReadWriteType8Bit == 0
ReadWriteType32Bit == 1
ReadMaxCount8Bit == 253
ReadMaxCount32Bit == 63
WriteMaxCount8Bit == 247
WriteMaxCount32Bit == 244

ErrNil == "nil"
ErrSerial == "ErrSerial"
ErrDevice == "ErrDevice"
ErrDeviceTimeout == "ErrDeviceTimeout"
ErrBadPacket == "ErrBadPacket"
ErrBadArguments == "ErrBadArguments"
\* a Go run-time panic (index out of range) that aborts the call
Panic == "panic"
\* errors the transport (io.ReadWriteCloser) itself may return
TransportErrs == {"EIO", "EOF"}

(***************************************************************************)
(* Bounds of the model                                                     *)
(***************************************************************************)
\* longest frame the device is let to announce in a size byte
MaxFrameLen == 6
\* most bytes one Read of Sync's 100-byte buffer is let to return
MaxSyncRead == 3
\* the count of transport reads saturates here
MaxReadCount == 4
\* longest enumerated payload / frame of the codec specification
MaxCodecLen == 3
\* longest enumerated reply payload of the reply specification
MaxReplyLen == 5
\* most calls after Sync that hist records
MaxCalls == 2
\* most 0x00 bytes the device sends before a reply in the stream specification
MaxPad == 2

(***************************************************************************)
(* Pure helpers                                                            *)
(***************************************************************************)
Fill(n, b) == [i \in 1..n |-> b]

Tail2(s) == SubSeq(s, 3, Len(s))

SeqsUpTo(S, n) == UNION {[1..k -> S] : k \in 0..n}

\* byte(x): conversion of a non-negative integer to uint8
byte(x) == x % 256

\* data[i], and 0 (which leaves the sum as it is) past the end
ByteAt(data, i) == IF i <= Len(data) THEN data[i] ELSE 0

\* sum += b on a byte accumulator
addByte(sum, b) == (sum + b) % 256

addBytes4(sum, data, i) ==
    addByte(addByte(addByte(addByte(sum, ByteAt(data, i)), ByteAt(data, i + 1)),
                    ByteAt(data, i + 2)), ByteAt(data, i + 3))

\* checksum's loop from index i on: sum += b for each byte in order, eight
\* iterations of the loop per unfolding
RECURSIVE checksumFrom(_, _, _)
checksumFrom(sum, data, i) ==
    IF sum < 256 /\ i <= Len(data)
    THEN checksumFrom(addBytes4(addBytes4(sum, data, i), data, i + 4), data, i + 8)
    ELSE sum

\* a mutant of checksum: the loop misses the first byte
checksum_skipfirst(data) == checksumFrom(0, data, 2)

checksum(data) == checksumFrom(0, data, 1)

encodeSize(size) == size % 256

\* a mutant of be32: the least significant byte comes first
be32_le(x) == << x % 256, (x \div 256) % 256, (x \div 65536) % 256, (x \div 16777216) % 256 >>

\* the four bytes of a uint32, most significant first
be32(x) == << (x \div 16777216) % 256, (x \div 65536) % 256, (x \div 256) % 256, x % 256 >>

\* a mutant of encodePacket: the size byte counts the payload and one byte
encodePacket_size1(data) == <<encodeSize(1 + Len(data)), checksum(data)>> \o data

encodePacket(data) == <<encodeSize(2 + Len(data)), checksum(data)>> \o data

\* a mutant of decodePacket: the checksum is not verified
decodePacket_nosum(pkt) ==
    IF Len(pkt) < 3 THEN [err |-> ErrBadPacket, data |-> <<>>]
    ELSE IF encodeSize(Len(pkt)) # pkt[1] THEN [err |-> ErrBadPacket, data |-> <<>>]
    ELSE [err |-> ErrNil, data |-> Tail2(pkt)]

\* a mutant of decodePacket: the minimum length tested is 2
decodePacket_min2(pkt) ==
    IF Len(pkt) < 2 THEN [err |-> ErrBadPacket, data |-> <<>>]
    ELSE IF encodeSize(Len(pkt)) # pkt[1] THEN [err |-> ErrBadPacket, data |-> <<>>]
    ELSE IF checksum(Tail2(pkt)) # pkt[2] THEN [err |-> ErrBadPacket, data |-> <<>>]
    ELSE [err |-> ErrNil, data |-> Tail2(pkt)]

decodePacket(pkt) ==
    IF Len(pkt) < 3 THEN [err |-> ErrBadPacket, data |-> <<>>]
    ELSE IF encodeSize(Len(pkt)) # pkt[1] THEN [err |-> ErrBadPacket, data |-> <<>>]
    ELSE IF checksum(Tail2(pkt)) # pkt[2] THEN [err |-> ErrBadPacket, data |-> <<>>]
    ELSE [err |-> ErrNil, data |-> Tail2(pkt)]

\* Command.Marshal
Marshal(type, parameters) == <<type>> \o parameters

encodeCmdPacket(cmd, parameters) == encodePacket(Marshal(cmd, parameters))

\* Command{}: the zero value decodeCmdPacket starts from
NoCmd == [Type |-> 0, Parameters |-> <<>>]

\* a mutant of Unmarshal: the type byte stays in the parameters
Unmarshal_keeptype(c, data) ==
    IF Len(data) < 1 THEN [err |-> ErrBadPacket, cmd |-> c]
    ELSE [err |-> ErrNil, cmd |-> [Type |-> data[1], Parameters |-> data]]

\* Command.Unmarshal on the command c: the error returned and c afterwards
Unmarshal(c, data) ==
    IF Len(data) < 1 THEN [err |-> ErrBadPacket, cmd |-> c]
    ELSE [err |-> ErrNil, cmd |-> [Type |-> data[1], Parameters |-> Tail(data)]]

decodeCmdPacket(pkt) ==
    LET d == decodePacket(pkt)
    IN  IF d.err # ErrNil THEN [err |-> d.err, cmd |-> NoCmd]
        ELSE Unmarshal(NoCmd, d.data)

(***************************************************************************)
(* State                                                                   *)
(***************************************************************************)
VARIABLES
    pc,        \* position of the running call: the next transport call it makes
    op,        \* the public operation running (name and arguments)
    attempt,   \* loop variable of Sync / SendPacket
    rattempt,  \* loop variable of RecvPacket
    ticks,     \* "attempts" of the running recvNonZero / recvByte
    pkt,       \* the frame handed to SendPacket
    rbuf,      \* RecvPacket's pkt buffer: the bytes filled so far
    ack,       \* what recvAck last returned to SendPacket
    sendRet,   \* what SendPacket returned ("none": not returned)
    recvRet,   \* what RecvPacket returned ("none": not returned)
    ret,       \* what the public operation returned
    wlog,      \* the buffers passed to port.Write by this operation, in order
    nreads,    \* number of port.Read calls of this operation (saturating)
    lastRead,  \* the result of the last port.Read
    ioerr,     \* the error a transport call of this operation returned
    lastWrite, \* the result of the last port.Write
    cpc, csrc, cpayload, cframe, cdec, ccorrupt,  \* the codec specification's state
    ccmd,      \* the Command given to encodeCmdPacket (command codec)
    cres,      \* what decodeCmdPacket or Unmarshal returned (command codec)
    hist,      \* the calls completed since Sync succeeded, Sync first (scenarios)
    tcalls,    \* parity of the number of transport calls made (scenarios)
    stream     \* the bytes the device sends and how many were read (scenarios)

sessionVars == <<pc, op, attempt, rattempt, ticks, pkt, rbuf, ack, sendRet, recvRet,
                 ret, wlog, nreads, lastRead, ioerr, lastWrite>>
codecVars == <<cpc, csrc, cpayload, cframe, cdec, ccorrupt, ccmd, cres>>
scenVars == <<hist, tcalls, stream>>
vars == <<pc, op, attempt, rattempt, ticks, pkt, rbuf, ack, sendRet, recvRet,
          ret, wlog, nreads, lastRead, ioerr, lastWrite, cpc, csrc, cpayload, cframe, cdec, ccorrupt,
          ccmd, cres, hist, tcalls, stream>>

(***************************************************************************)
(* The transport: what a Write or a Read may answer                        *)
(***************************************************************************)
\* bytes the device may answer while SendPacket waits for an acknowledgment
AckBytes == {0, CC_NACK, CC_ACK, 66}
\* bytes the device may send as the leading byte of a reply frame
SizeBytes == 0..MaxFrameLen
\* bytes the device may send inside a reply frame
DataBytes == {0, 1, 40}
\* bytes the device may answer to the sync pattern
SyncBytes == {0, CC_ACK, CC_NACK}

\* port.Write(buf): an error, the whole buffer, or one byte short
WriteResults(buf) ==
    {[err |-> ErrNil, n |-> Len(buf)], [err |-> ErrNil, n |-> Len(buf) - 1]}
      \cup {[err |-> e, n |-> 0] : e \in TransportErrs}

\* port.Read into Sync's 100-byte buffer
SyncReads ==
    {[err |-> ErrNil, n |-> Len(d), data |-> d] : d \in SeqsUpTo(SyncBytes, MaxSyncRead)}
      \cup {[err |-> e, n |-> 0, data |-> <<>>] : e \in TransportErrs}

\* port.Read into a 1-byte buffer: an error, a timeout (n = 0), one byte, or a
\* count the buffer cannot hold
ByteReads(S) ==
    {[err |-> ErrNil, n |-> 0, data |-> <<>>], [err |-> ErrNil, n |-> 2, data |-> <<>>]}
      \cup {[err |-> ErrNil, n |-> 1, data |-> <<b>>] : b \in S}
      \cup {[err |-> e, n |-> 0, data |-> <<>>] : e \in TransportErrs}

NoRead == [err |-> ErrNil, n |-> 0, data |-> <<>>]
NoWrite == [err |-> ErrNil, n |-> 0]
NoAck == [b |-> 0, err |-> "none"]
NoRet == [err |-> "none", val |-> <<>>]

CountRead(n) == IF n < MaxReadCount THEN n + 1 ELSE n

(***************************************************************************)
(* Public operations and their arguments                                   *)
(***************************************************************************)
U32Args == {0, 16909060}

NoArgs(name) == [name |-> name, a |-> 0, b |-> 0, c |-> 0, typ |-> 0, count |-> 0, data |-> <<>>]

SendDataLens == {0, 1, 252, 253, 254}
MemoryReadCounts == {1, 63, 64, 253, 254, 255}
MemoryWriteLens == {0, 3, 4, 244, 245, 247, 248, 256, 260}

Calls ==
    {NoArgs(n) : n \in {"Sync", "Ping", "GetStatus", "Reset", "GetChipID", "BankErase",
                        "RecvPacket"}}
      \cup {[NoArgs("Download") EXCEPT !.a = x, !.b = y] : x \in U32Args, y \in U32Args}
      \cup {[NoArgs("SendData") EXCEPT !.data = Fill(n, 1)] : n \in SendDataLens}
      \cup {[NoArgs("SectorErase") EXCEPT !.a = x] : x \in U32Args}
      \cup {[NoArgs("CRC32") EXCEPT !.a = x, !.b = 84281096, !.c = 1] : x \in U32Args}
      \cup {[NoArgs("MemoryRead") EXCEPT !.a = 16909060, !.typ = t, !.count = n] :
                t \in {ReadWriteType8Bit, ReadWriteType32Bit}, n \in MemoryReadCounts}
      \cup {[NoArgs("MemoryWrite") EXCEPT !.a = 16909060, !.typ = t, !.data = Fill(n, 1)] :
                t \in {ReadWriteType8Bit, ReadWriteType32Bit}, n \in MemoryWriteLens}
      \cup {[NoArgs("SetCCFG") EXCEPT !.a = i, !.b = x] : i \in {0, 14}, x \in U32Args}

\* a mutant of MemoryReadArgsBad: the 8-bit limit is compared with >=
MemoryReadArgsBad_ge(typ, count) ==
    \/ typ = ReadWriteType8Bit /\ count >= ReadMaxCount8Bit
    \/ typ = ReadWriteType32Bit /\ count > ReadMaxCount32Bit

MemoryReadArgsBad(typ, count) ==
    \/ typ = ReadWriteType8Bit /\ count > ReadMaxCount8Bit
    \/ typ = ReadWriteType32Bit /\ count > ReadMaxCount32Bit

\* uint8(len(data)) is compared with the limit
MemoryWriteArgsBad(typ, data) ==
    \/ typ = ReadWriteType8Bit /\ byte(Len(data)) > WriteMaxCount8Bit
    \/ typ = ReadWriteType32Bit /\ byte(Len(data)) > WriteMaxCount32Bit

SendDataArgsBad(data) == Len(data) > SendDataMaxSize

\* the argument checks made before any packet is built
ArgsBad(o) ==
    CASE o.name = "SendData" -> SendDataArgsBad(o.data)
      [] o.name = "MemoryRead" -> MemoryReadArgsBad(o.typ, o.count)
      [] o.name = "MemoryWrite" -> MemoryWriteArgsBad(o.typ, o.data)
      [] OTHER -> FALSE

\* the frame each command hands to SendPacket
CmdFrame(o) ==
    CASE o.name = "Ping" -> encodeCmdPacket(COMMAND_PING, <<>>)
      [] o.name = "Download" -> encodeCmdPacket(COMMAND_DOWNLOAD, be32(o.a) \o be32(o.b))
      [] o.name = "SendData" -> encodeCmdPacket(COMMAND_SEND_DATA, o.data)
      [] o.name = "SectorErase" -> encodeCmdPacket(COMMAND_SECTOR_ERASE, be32(o.a))
      [] o.name = "GetStatus" -> encodeCmdPacket(COMMAND_GET_STATUS, <<>>)
      [] o.name = "Reset" -> encodeCmdPacket(COMMAND_RESET, <<>>)
      [] o.name = "GetChipID" -> encodeCmdPacket(COMMAND_GET_CHIP_ID, <<>>)
      [] o.name = "CRC32" ->
           encodeCmdPacket(COMMAND_CRC32, be32(o.a) \o be32(o.b) \o be32(o.c))
      [] o.name = "BankErase" -> encodeCmdPacket(COMMAND_BANK_ERASE, <<>>)
      [] o.name = "MemoryRead" ->
           encodeCmdPacket(COMMAND_MEMORY_READ, be32(o.a) \o <<byte(o.typ), byte(o.count)>>)
      [] o.name = "MemoryWrite" ->
           encodeCmdPacket(COMMAND_MEMORY_WRITE, be32(o.a) \o <<byte(o.typ)>> \o o.data)
      [] o.name = "SetCCFG" -> encodeCmdPacket(COMMAND_CRC32, be32(o.a) \o be32(o.b))
      [] OTHER -> <<>>

\* the commands that call RecvPacket after SendPacket
HasReply(name) == name \in {"GetStatus", "GetChipID", "CRC32", "MemoryRead"}

\* a mutant of u32of: the least significant byte comes first
u32of_le(d) == d[4] * 16777216 + d[3] * 65536 + d[2] * 256 + d[1]

\* big-endian uint32 of the first four bytes
u32of(d) == d[1] * 16777216 + d[2] * 65536 + d[3] * 256 + d[4]

\* a mutant of ReplyResult: GetStatus tests len(data) < 1
ReplyResult_atleast1(name, data) ==
    CASE name = "GetStatus" ->
           IF Len(data) < 1 THEN [err |-> ErrDevice, val |-> <<>>]
           ELSE [err |-> ErrNil, val |-> <<data[1]>>]
      [] name = "GetChipID" ->
           IF Len(data) # 4 THEN [err |-> ErrDevice, val |-> <<>>]
           ELSE [err |-> ErrNil, val |-> <<u32of(data)>>]
      [] name = "CRC32" ->
           IF Len(data) < 4 THEN [err |-> Panic, val |-> <<>>]
           ELSE [err |-> ErrNil, val |-> <<u32of(data)>>]
      [] OTHER -> [err |-> ErrNil, val |-> data]

\* what a command makes of the payload RecvPacket returned
ReplyResult(name, data) ==
    CASE name = "GetStatus" ->
           IF Len(data) # 1 THEN [err |-> ErrDevice, val |-> <<>>]
           ELSE [err |-> ErrNil, val |-> <<data[1]>>]
      [] name = "GetChipID" ->
           IF Len(data) # 4 THEN [err |-> ErrDevice, val |-> <<>>]
           ELSE [err |-> ErrNil, val |-> <<u32of(data)>>]
      [] name = "CRC32" ->
           IF Len(data) < 4 THEN [err |-> Panic, val |-> <<>>]
           ELSE [err |-> ErrNil, val |-> <<u32of(data)>>]
      [] OTHER -> [err |-> ErrNil, val |-> data]

(***************************************************************************)
(* Byte-level reception                                                    *)
(***************************************************************************)
\* a mutant of recvNonZero: a 0x00 byte is returned like any other byte
recvNonZero_keepzero(t, r) ==
    IF r.err # ErrNil THEN [done |-> TRUE, b |-> 0, err |-> r.err, ticks |-> t]
    ELSE IF r.n = 0 THEN
        IF t + 1 > numAttempts
        THEN [done |-> TRUE, b |-> 0, err |-> ErrDeviceTimeout, ticks |-> t + 1]
        ELSE [done |-> FALSE, b |-> 0, err |-> ErrNil, ticks |-> t + 1]
    ELSE IF r.n = 1 THEN [done |-> TRUE, b |-> r.data[1], err |-> ErrNil, ticks |-> t]
    ELSE [done |-> TRUE, b |-> 0, err |-> ErrSerial, ticks |-> t]

\* a mutant of recvNonZero: a 0x00 byte starts the count of zero-length reads
\* again
recvNonZero_resetzero(t, r) ==
    IF r.err # ErrNil THEN [done |-> TRUE, b |-> 0, err |-> r.err, ticks |-> t]
    ELSE IF r.n = 0 THEN
        IF t + 1 > numAttempts
        THEN [done |-> TRUE, b |-> 0, err |-> ErrDeviceTimeout, ticks |-> t + 1]
        ELSE [done |-> FALSE, b |-> 0, err |-> ErrNil, ticks |-> t + 1]
    ELSE IF r.n = 1 THEN
        IF r.data[1] = 0
        THEN [done |-> FALSE, b |-> 0, err |-> ErrNil, ticks |-> 0]
        ELSE [done |-> TRUE, b |-> r.data[1], err |-> ErrNil, ticks |-> t]
    ELSE [done |-> TRUE, b |-> 0, err |-> ErrSerial, ticks |-> t]

\* a mutant of recvNonZero: a 0x00 byte is counted like a zero-length read
recvNonZero_tickzero(t, r) ==
    IF r.err # ErrNil THEN [done |-> TRUE, b |-> 0, err |-> r.err, ticks |-> t]
    ELSE IF r.n = 0 \/ (r.n = 1 /\ r.data[1] = 0) THEN
        IF t + 1 > numAttempts
        THEN [done |-> TRUE, b |-> 0, err |-> ErrDeviceTimeout, ticks |-> t + 1]
        ELSE [done |-> FALSE, b |-> 0, err |-> ErrNil, ticks |-> t + 1]
    ELSE IF r.n = 1 THEN [done |-> TRUE, b |-> r.data[1], err |-> ErrNil, ticks |-> t]
    ELSE [done |-> TRUE, b |-> 0, err |-> ErrSerial, ticks |-> t]

\* One pass of recvNonZero's loop with t ticks so far, on read result r:
\* done = the function returns (b, err); otherwise it loops with the new ticks.
recvNonZero(t, r) ==
    IF r.err # ErrNil THEN [done |-> TRUE, b |-> 0, err |-> r.err, ticks |-> t]
    ELSE IF r.n = 0 THEN
        IF t + 1 > numAttempts
        THEN [done |-> TRUE, b |-> 0, err |-> ErrDeviceTimeout, ticks |-> t + 1]
        ELSE [done |-> FALSE, b |-> 0, err |-> ErrNil, ticks |-> t + 1]
    ELSE IF r.n = 1 THEN
        IF r.data[1] = 0
        THEN [done |-> FALSE, b |-> 0, err |-> ErrNil, ticks |-> t]
        ELSE [done |-> TRUE, b |-> r.data[1], err |-> ErrNil, ticks |-> t]
    ELSE [done |-> TRUE, b |-> 0, err |-> ErrSerial, ticks |-> t]

\* a mutant of recvByte: the tick count is compared with >=
recvByte_ge(t, r) ==
    IF r.err # ErrNil THEN [done |-> TRUE, b |-> 0, err |-> r.err, ticks |-> t]
    ELSE IF r.n = 0 THEN
        IF t + 1 >= numAttempts
        THEN [done |-> TRUE, b |-> 0, err |-> ErrDeviceTimeout, ticks |-> t + 1]
        ELSE [done |-> FALSE, b |-> 0, err |-> ErrNil, ticks |-> t + 1]
    ELSE IF r.n = 1 THEN [done |-> TRUE, b |-> r.data[1], err |-> ErrNil, ticks |-> t]
    ELSE [done |-> TRUE, b |-> 0, err |-> ErrSerial, ticks |-> t]

\* a mutant of recvByte: a 0x00 byte is thrown away, as recvNonZero does
recvByte_nonzero(t, r) == recvNonZero(t, r)

\* One pass of recvByte's loop: as recvNonZero, but a 0x00 byte is returned.
recvByte(t, r) ==
    IF r.err # ErrNil THEN [done |-> TRUE, b |-> 0, err |-> r.err, ticks |-> t]
    ELSE IF r.n = 0 THEN
        IF t + 1 > numAttempts
        THEN [done |-> TRUE, b |-> 0, err |-> ErrDeviceTimeout, ticks |-> t + 1]
        ELSE [done |-> FALSE, b |-> 0, err |-> ErrNil, ticks |-> t + 1]
    ELSE IF r.n = 1 THEN [done |-> TRUE, b |-> r.data[1], err |-> ErrNil, ticks |-> t]
    ELSE [done |-> TRUE, b |-> 0, err |-> ErrSerial, ticks |-> t]

\* a mutant of ShortWrite: the written length is not looked at
ShortWrite_never(w, buf) == FALSE

\* n != len(buf) after a Write that returned no error
ShortWrite(w, buf) == w.n # Len(buf)

\* the transport error of a read or write result, "nil" when it returned none
IoErrOf(e) == IF e \in TransportErrs THEN e ELSE ErrNil

(***************************************************************************)
(* Call: a public operation starts                                         *)
(***************************************************************************)
Call ==
    /\ pc = "idle"
    /\ \E o \in Calls :
         /\ op' = o
         /\ IF o.name = "Sync" THEN
                pc' = "sync_write" /\ pkt' = <<>> /\ ret' = NoRet
            ELSE IF o.name = "RecvPacket" THEN
                pc' = "recv_size" /\ pkt' = <<>> /\ ret' = NoRet
            ELSE IF ArgsBad(o) THEN
                pc' = "done" /\ pkt' = <<>> /\ ret' = [err |-> ErrBadArguments, val |-> <<>>]
            ELSE
                pc' = "send_write" /\ pkt' = CmdFrame(o) /\ ret' = NoRet
    /\ attempt' = 0 /\ rattempt' = 0 /\ ticks' = 0
    /\ rbuf' = <<>> /\ ack' = NoAck /\ sendRet' = "none" /\ recvRet' = "none"
    /\ wlog' = <<>> /\ nreads' = 0 /\ lastRead' = NoRead /\ ioerr' = ErrNil
    /\ lastWrite' = NoWrite
    /\ UNCHANGED codecVars

(***************************************************************************)
(* Sync                                                                    *)
(***************************************************************************)
\* a mutant of SyncReplyOk: only the second byte is compared
SyncReplyOk_second(buf) == buf[2] = CC_ACK

\* buf[0] == 0x00 && buf[1] == CC_ACK
SyncReplyOk(buf) == buf[1] = 0 /\ buf[2] = CC_ACK

\* a mutant of SyncVerdict: a read of the wrong length ends Sync
SyncVerdict_giveup(r) ==
    IF r.err # ErrNil THEN r.err
    ELSE IF r.n # 2 THEN ErrDevice
    ELSE IF SyncReplyOk(r.data) THEN ErrNil
    ELSE "continue"

\* what Sync does with the result of its read: return an error, return nil,
\* or go round the loop
SyncVerdict(r) ==
    IF r.err # ErrNil THEN r.err
    ELSE IF r.n # 2 THEN "continue"
    ELSE IF SyncReplyOk(r.data) THEN ErrNil
    ELSE "continue"

SyncWrite ==
    /\ pc = "sync_write"
    /\ wlog' = Append(wlog, CC_SYNC)
    /\ \E w \in WriteResults(CC_SYNC) :
         /\ ioerr' = IoErrOf(w.err)
         /\ lastWrite' = w
         /\ IF w.err # ErrNil THEN
                pc' = "done" /\ ret' = [err |-> w.err, val |-> <<>>]
            ELSE IF ShortWrite(w, CC_SYNC) THEN
                pc' = "done" /\ ret' = [err |-> ErrSerial, val |-> <<>>]
            ELSE
                pc' = "sync_read" /\ ret' = ret
    /\ UNCHANGED <<op, attempt, rattempt, ticks, pkt, rbuf, ack, sendRet, recvRet,
                   nreads, lastRead>>
    /\ UNCHANGED codecVars

SyncRead ==
    /\ pc = "sync_read"
    /\ nreads' = CountRead(nreads)
    /\ \E r \in SyncReads :
         /\ lastRead' = r
         /\ ioerr' = IoErrOf(r.err)
         /\ LET v == SyncVerdict(r) IN
            IF v = "continue" THEN
                /\ attempt' = attempt + 1
                /\ IF attempt + 1 < numAttempts
                   THEN pc' = "sync_write" /\ ret' = ret
                   ELSE pc' = "done" /\ ret' = [err |-> ErrDevice, val |-> <<>>]
            ELSE
                /\ attempt' = attempt
                /\ pc' = "done" /\ ret' = [err |-> v, val |-> <<>>]
    /\ UNCHANGED <<op, rattempt, ticks, pkt, rbuf, ack, sendRet, recvRet, wlog, lastWrite>>
    /\ UNCHANGED codecVars

(***************************************************************************)
(* SendPacket                                                              *)
(***************************************************************************)
\* a mutant of SendPacketVerdict: only NACK makes it try again, any other
\* nonzero byte is taken for the acknowledgment
SendPacketVerdict_lax(b, err) ==
    IF err = ErrDeviceTimeout THEN "continue"
    ELSE IF err # ErrNil THEN err
    ELSE IF b # CC_NACK THEN ErrNil
    ELSE "continue"

\* a mutant of SendPacketVerdict: the timeout of recvAck is returned
SendPacketVerdict_timeout(b, err) ==
    IF err # ErrNil THEN err
    ELSE IF b = CC_ACK THEN ErrNil
    ELSE "continue"

\* a mutant of SendPacketVerdict: every error of recvAck makes it try again
SendPacketVerdict_retryall(b, err) ==
    IF err # ErrNil THEN "continue"
    ELSE IF b = CC_ACK THEN ErrNil
    ELSE "continue"

\* what SendPacket does with (ack, err) of recvAck: go round the loop,
\* return err, or return nil
SendPacketVerdict(b, err) ==
    IF err = ErrDeviceTimeout THEN "continue"
    ELSE IF err # ErrNil THEN err
    ELSE IF b = CC_ACK THEN ErrNil
    ELSE "continue"

\* a mutant of AfterSendPacket: a command with a reply goes on to RecvPacket
\* whatever SendPacket returned
AfterSendPacket_always(e) ==
    /\ sendRet' = e
    /\ IF HasReply(op.name)
       THEN pc' = "recv_size" /\ ret' = ret
       ELSE pc' = "done" /\ ret' = [err |-> e, val |-> <<>>]

\* SendPacket returned e to the command: every command returns an error at
\* once; a command with a reply goes on to RecvPacket, the others return nil
AfterSendPacket(e) ==
    /\ sendRet' = e
    /\ IF e = ErrNil /\ HasReply(op.name)
       THEN pc' = "recv_size" /\ ret' = ret
       ELSE pc' = "done" /\ ret' = [err |-> e, val |-> <<>>]

SendWrite ==
    /\ pc = "send_write"
    /\ wlog' = Append(wlog, pkt)
    /\ \E w \in WriteResults(pkt) :
         /\ ioerr' = IoErrOf(w.err)
         /\ lastWrite' = w
         /\ IF w.err # ErrNil THEN AfterSendPacket(w.err)
            ELSE IF ShortWrite(w, pkt) THEN AfterSendPacket(ErrSerial)
            ELSE pc' = "send_ack" /\ sendRet' = sendRet /\ ret' = ret
    /\ ticks' = 0
    /\ UNCHANGED <<op, attempt, rattempt, pkt, rbuf, ack, recvRet, nreads, lastRead>>
    /\ UNCHANGED codecVars

\* one Read of the recvAck that SendPacket waits in
SendAck ==
    /\ pc = "send_ack"
    /\ nreads' = CountRead(nreads)
    /\ \E r \in ByteReads(AckBytes) :
         /\ lastRead' = r
         /\ ioerr' = IoErrOf(r.err)
         /\ LET s == recvNonZero(ticks, r) IN
            IF ~s.done THEN
                /\ ticks' = s.ticks
                /\ UNCHANGED <<pc, attempt, ack, sendRet, ret>>
            ELSE
                /\ ack' = [b |-> s.b, err |-> s.err]
                /\ ticks' = 0
                /\ LET v == SendPacketVerdict(s.b, s.err) IN
                   IF v = "continue" THEN
                       /\ attempt' = attempt + 1
                       /\ IF attempt + 1 < numAttempts
                          THEN pc' = "send_write" /\ sendRet' = sendRet /\ ret' = ret
                          ELSE AfterSendPacket(ErrDevice)
                   ELSE
                       /\ attempt' = attempt
                       /\ AfterSendPacket(v)
    /\ UNCHANGED <<op, rattempt, pkt, rbuf, recvRet, wlog, lastWrite>>
    /\ UNCHANGED codecVars

(***************************************************************************)
(* RecvPacket                                                              *)
(***************************************************************************)
\* a mutant of AfterRecvPacket: on a timeout the partial frame is refused
\* with a NACK and the next attempt is made
AfterRecvPacket_retry(data, e) ==
    IF e = ErrDeviceTimeout
    THEN pc' = "recv_nack" /\ recvRet' = recvRet /\ ret' = ret
    ELSE /\ recvRet' = e
         /\ pc' = "done"
         /\ ret' = IF e # ErrNil THEN [err |-> e, val |-> <<>>]
                   ELSE ReplyResult(op.name, data)

\* a mutant of AfterRecvPacket: the error of sendAck, like every other error,
\* is not looked at
AfterRecvPacket_ignore(data, e) ==
    /\ recvRet' = ErrNil
    /\ pc' = "done"
    /\ ret' = ReplyResult(op.name, data)

\* RecvPacket returned (data, e): the command, or RecvPacket called directly,
\* returns
AfterRecvPacket(data, e) ==
    /\ recvRet' = e
    /\ pc' = "done"
    /\ ret' = IF e # ErrNil THEN [err |-> e, val |-> <<>>] ELSE ReplyResult(op.name, data)

\* the buffer is full: decodePacket decides which acknowledgment is written
AfterFill(buf) == IF decodePacket(buf).err # ErrNil THEN "recv_nack" ELSE "recv_ack"

\* one Read of the recvNonZero that waits for the size byte, the device
\* sending bytes of S
RecvSizeFrom(S) ==
    /\ pc = "recv_size"
    /\ nreads' = CountRead(nreads)
    /\ \E r \in ByteReads(S) :
         /\ lastRead' = r
         /\ ioerr' = IoErrOf(r.err)
         /\ LET s == recvNonZero(ticks, r) IN
            IF ~s.done THEN
                /\ ticks' = s.ticks
                /\ UNCHANGED <<pc, rbuf, recvRet, ret>>
            ELSE IF s.err # ErrNil THEN
                /\ ticks' = 0
                /\ rbuf' = rbuf
                /\ AfterRecvPacket(<<>>, s.err)
            ELSE
                /\ ticks' = 0
                /\ rbuf' = <<s.b>>
                /\ pc' = IF 1 < s.b THEN "recv_byte" ELSE AfterFill(<<s.b>>)
                /\ UNCHANGED <<recvRet, ret>>
    /\ UNCHANGED <<op, attempt, rattempt, pkt, ack, sendRet, wlog, lastWrite>>
    /\ UNCHANGED codecVars

RecvSize == RecvSizeFrom(SizeBytes)

\* one Read of a recvByte that fills pkt[count], the device sending bytes of S
RecvByteFrom(S) ==
    /\ pc = "recv_byte"
    /\ nreads' = CountRead(nreads)
    /\ \E r \in ByteReads(S) :
         /\ lastRead' = r
         /\ ioerr' = IoErrOf(r.err)
         /\ LET s == recvByte(ticks, r) IN
            IF ~s.done THEN
                /\ ticks' = s.ticks
                /\ UNCHANGED <<pc, rbuf, recvRet, ret>>
            ELSE IF s.err # ErrNil THEN
                /\ ticks' = 0
                /\ rbuf' = rbuf
                /\ AfterRecvPacket(<<>>, s.err)
            ELSE
                /\ ticks' = 0
                /\ rbuf' = Append(rbuf, s.b)
                /\ pc' = IF Len(rbuf) + 1 < rbuf[1] THEN "recv_byte"
                         ELSE AfterFill(Append(rbuf, s.b))
                /\ UNCHANGED <<recvRet, ret>>
    /\ UNCHANGED <<op, attempt, rattempt, pkt, ack, sendRet, wlog, lastWrite>>
    /\ UNCHANGED codecVars

RecvByte == RecvByteFrom(DataBytes)

\* sendAck(CC_NACK) after a frame decodePacket refused, then the next attempt
\* (pkt, the refused buffer, is dropped)
RecvNack ==
    /\ pc = "recv_nack"
    /\ wlog' = Append(wlog, <<CC_NACK>>)
    /\ \E w \in WriteResults(<<CC_NACK>>) :
         /\ ioerr' = IoErrOf(w.err)
         /\ lastWrite' = w
         /\ IF w.err # ErrNil THEN
                rattempt' = rattempt /\ AfterRecvPacket(<<>>, w.err)
            ELSE IF ShortWrite(w, <<CC_NACK>>) THEN
                rattempt' = rattempt /\ AfterRecvPacket(<<>>, ErrSerial)
            ELSE
                /\ rattempt' = rattempt + 1
                /\ IF rattempt + 1 < numAttempts
                   THEN pc' = "recv_size" /\ UNCHANGED <<recvRet, ret>>
                   ELSE AfterRecvPacket(<<>>, ErrDevice)
    /\ ticks' = 0
    /\ rbuf' = <<>>
    /\ UNCHANGED <<op, attempt, pkt, ack, sendRet, nreads, lastRead>>
    /\ UNCHANGED codecVars

\* sendAck(CC_ACK) after a frame decodePacket accepted, then the return
RecvAck ==
    /\ pc = "recv_ack"
    /\ wlog' = Append(wlog, <<CC_ACK>>)
    /\ \E w \in WriteResults(<<CC_ACK>>) :
         /\ ioerr' = IoErrOf(w.err)
         /\ lastWrite' = w
         /\ IF w.err # ErrNil THEN AfterRecvPacket(<<>>, w.err)
            ELSE IF ShortWrite(w, <<CC_ACK>>) THEN AfterRecvPacket(<<>>, ErrSerial)
            ELSE AfterRecvPacket(decodePacket(rbuf).data, ErrNil)
    /\ ticks' = 0
    /\ UNCHANGED <<op, attempt, rattempt, pkt, rbuf, ack, sendRet, nreads, lastRead>>
    /\ UNCHANGED codecVars

(***************************************************************************)
(* The session specification                                               *)
(***************************************************************************)
\* nothing was decoded into a Command yet
NoRes == [err |-> "none", cmd |-> NoCmd]

CodecIdle ==
    /\ cpc = "off" /\ csrc = "none" /\ cpayload = <<>> /\ cframe = <<>>
    /\ cdec = [err |-> "none", data |-> <<>>] /\ ccorrupt = 0
    /\ ccmd = NoCmd /\ cres = NoRes

SessionIdle ==
    /\ pc = "idle" /\ op = NoArgs("none")
    /\ attempt = 0 /\ rattempt = 0 /\ ticks = 0
    /\ pkt = <<>> /\ rbuf = <<>> /\ ack = NoAck
    /\ sendRet = "none" /\ recvRet = "none" /\ ret = NoRet
    /\ wlog = <<>> /\ nreads = 0 /\ lastRead = NoRead /\ ioerr = ErrNil
    /\ lastWrite = NoWrite

\* no scenario is running
NoStream == [bytes |-> <<>>, pos |-> 0]
ScenIdle == hist = <<>> /\ tcalls = 0 /\ stream = NoStream

Init == SessionIdle /\ CodecIdle /\ ScenIdle

\* a mutant of Return: the result of the call outlives it, as a sticky error
\* field of Device would
Return_keeperr ==
    /\ pc = "done"
    /\ pc' = "idle" /\ op' = NoArgs("none")
    /\ attempt' = 0 /\ rattempt' = 0 /\ ticks' = 0
    /\ pkt' = <<>> /\ rbuf' = <<>> /\ ack' = NoAck
    /\ sendRet' = "none" /\ recvRet' = "none" /\ ret' = ret
    /\ wlog' = <<>> /\ nreads' = 0 /\ lastRead' = NoRead /\ ioerr' = ErrNil
    /\ lastWrite' = NoWrite
    /\ UNCHANGED codecVars

\* a mutant of Return: the attempt counter outlives the call, as a field of
\* Device would
Return_sticky ==
    /\ pc = "done"
    /\ pc' = "idle" /\ op' = NoArgs("none")
    /\ attempt' = attempt /\ rattempt' = 0 /\ ticks' = 0
    /\ pkt' = <<>> /\ rbuf' = <<>> /\ ack' = NoAck
    /\ sendRet' = "none" /\ recvRet' = "none" /\ ret' = NoRet
    /\ wlog' = <<>> /\ nreads' = 0 /\ lastRead' = NoRead /\ ioerr' = ErrNil
    /\ lastWrite' = NoWrite
    /\ UNCHANGED codecVars

\* the caller has the result: nothing of the call is kept (Device holds the
\* port and nothing else)
Return ==
    /\ pc = "done"
    /\ pc' = "idle" /\ op' = NoArgs("none")
    /\ attempt' = 0 /\ rattempt' = 0 /\ ticks' = 0
    /\ pkt' = <<>> /\ rbuf' = <<>> /\ ack' = NoAck
    /\ sendRet' = "none" /\ recvRet' = "none" /\ ret' = NoRet
    /\ wlog' = <<>> /\ nreads' = 0 /\ lastRead' = NoRead /\ ioerr' = ErrNil
    /\ lastWrite' = NoWrite
    /\ UNCHANGED codecVars

Next ==
    \/ Call /\ UNCHANGED scenVars
    \/ SyncWrite /\ UNCHANGED scenVars
    \/ SyncRead /\ UNCHANGED scenVars
    \/ SendWrite /\ UNCHANGED scenVars
    \/ SendAck /\ UNCHANGED scenVars
    \/ RecvSize /\ UNCHANGED scenVars
    \/ RecvByte /\ UNCHANGED scenVars
    \/ RecvNack /\ UNCHANGED scenVars
    \/ RecvAck /\ UNCHANGED scenVars
    \/ Return /\ UNCHANGED scenVars

Spec == Init /\ [][Next]_vars

(***************************************************************************)
(* The codec specification: encodePacket and decodePacket applied to       *)
(* payloads and frames drawn from bounded sets                             *)
(***************************************************************************)
CodecBytes == {0, 1, 255}
FrameBytes == {0, 1, 2, 3, 4, 255}
LongLens == {252, 253, 254, 255, 256}

PayloadInputs ==
    SeqsUpTo(CodecBytes, MaxCodecLen) \cup {Fill(n, b) : n \in LongLens, b \in {1, 255}}

FrameInputs ==
    SeqsUpTo(FrameBytes, MaxCodecLen + 1)
      \cup {<<s, c>> \o Fill(n, 1) : s \in {1, 2, 3}, c \in {0, 1, 255}, n \in {255, 256, 257}}

CodecInit ==
    /\ SessionIdle /\ ScenIdle
    /\ cdec = [err |-> "none", data |-> <<>>] /\ ccorrupt = 0
    /\ ccmd = NoCmd /\ cres = NoRes
    /\ \/ cpc = "payload" /\ csrc = "payload" /\ cpayload \in PayloadInputs /\ cframe = <<>>
       \/ cpc = "frame" /\ csrc = "frame" /\ cframe \in FrameInputs /\ cpayload = <<>>

\* encodePacket is applied to the payload
CodecEncode ==
    /\ cpc = "payload"
    /\ cframe' = encodePacket(cpayload)
    /\ cpc' = "encoded"
    /\ UNCHANGED <<csrc, cpayload, cdec, ccorrupt, ccmd, cres>>
    /\ UNCHANGED sessionVars

\* the size byte (i = 1) or the checksum byte (i = 2) of the encoded frame is
\* replaced by a different byte on the wire
CodecCorrupt ==
    /\ cpc = "encoded" /\ ccorrupt = 0
    /\ \E i \in {1, 2}, b \in FrameBytes :
         /\ b # cframe[i]
         /\ cframe' = [cframe EXCEPT ![i] = b]
         /\ ccorrupt' = i
    /\ UNCHANGED <<cpc, csrc, cpayload, cdec, ccmd, cres>>
    /\ UNCHANGED sessionVars

\* decodePacket is applied to the frame
CodecDecode ==
    /\ cpc \in {"frame", "encoded"}
    /\ cdec' = decodePacket(cframe)
    /\ cpc' = "decoded"
    /\ UNCHANGED <<csrc, cpayload, cframe, ccorrupt, ccmd, cres>>
    /\ UNCHANGED sessionVars

CodecNext ==
    \/ CodecEncode /\ UNCHANGED scenVars
    \/ CodecCorrupt /\ UNCHANGED scenVars
    \/ CodecDecode /\ UNCHANGED scenVars

SpecCodec == CodecInit /\ [][CodecNext]_vars

(***************************************************************************)
(* The command codec specification: encodeCmdPacket, decodeCmdPacket and   *)
(* Command.Unmarshal applied to commands, frames and payloads drawn from   *)
(* bounded sets                                                            *)
(***************************************************************************)
\* CommandType is a byte: the twelve commands and two bytes that are none
CmdTypeInputs ==
    {COMMAND_PING, COMMAND_DOWNLOAD, COMMAND_GET_STATUS, COMMAND_SEND_DATA,
     COMMAND_RESET, COMMAND_SECTOR_ERASE, COMMAND_CRC32, COMMAND_GET_CHIP_ID,
     COMMAND_MEMORY_READ, COMMAND_MEMORY_WRITE, COMMAND_BANK_ERASE,
     COMMAND_SET_CCFG, 0, 255}

CmdParamInputs ==
    SeqsUpTo(CodecBytes, MaxCodecLen) \cup {Fill(n, b) : n \in {251, 252}, b \in {1, 255}}

CmdInputs == [Type : CmdTypeInputs, Parameters : CmdParamInputs]

CmdInit ==
    /\ SessionIdle /\ ScenIdle
    /\ cdec = [err |-> "none", data |-> <<>>] /\ ccorrupt = 0
    /\ cres = NoRes
    /\ \/ /\ cpc = "command" /\ csrc = "command" /\ ccmd \in CmdInputs
          /\ cpayload = <<>> /\ cframe = <<>>
       \/ /\ cpc = "data" /\ csrc = "data" /\ cpayload \in PayloadInputs
          /\ ccmd = NoCmd /\ cframe = <<>>
       \/ /\ cpc = "frame" /\ csrc = "frame" /\ cframe \in FrameInputs
          /\ ccmd = NoCmd /\ cpayload = <<>>

\* encodeCmdPacket is applied to the command
CmdEncode ==
    /\ cpc = "command"
    /\ cframe' = encodeCmdPacket(ccmd.Type, ccmd.Parameters)
    /\ cpc' = "encoded"
    /\ UNCHANGED <<csrc, cpayload, cdec, ccorrupt, ccmd, cres>>
    /\ UNCHANGED sessionVars

\* decodeCmdPacket is applied to the frame
CmdDecode ==
    /\ cpc \in {"frame", "encoded"}
    /\ cres' = decodeCmdPacket(cframe)
    /\ cpc' = "decoded"
    /\ UNCHANGED <<csrc, cpayload, cframe, cdec, ccorrupt, ccmd>>
    /\ UNCHANGED sessionVars

\* Unmarshal is applied to the payload, on a zero Command
CmdUnmarshal ==
    /\ cpc = "data"
    /\ cres' = Unmarshal(NoCmd, cpayload)
    /\ cpc' = "decoded"
    /\ UNCHANGED <<csrc, cpayload, cframe, cdec, ccorrupt, ccmd>>
    /\ UNCHANGED sessionVars

CmdNext ==
    \/ CmdEncode /\ UNCHANGED scenVars
    \/ CmdDecode /\ UNCHANGED scenVars
    \/ CmdUnmarshal /\ UNCHANGED scenVars

SpecCmd == CmdInit /\ [][CmdNext]_vars

(***************************************************************************)
(* The reply specification: a command with a reply whose SendPacket was    *)
(* acknowledged at once and whose RecvPacket has filled its buffer with a  *)
(* well-formed frame; the payload bytes range over all 256 values          *)
(***************************************************************************)
ReplyBytes == {0, 1, 64}

ReplyPayloads ==
    {<<b>> : b \in 0..255} \cup (SeqsUpTo(ReplyBytes, MaxReplyLen) \ {<<>>})

\* the reads made so far: one for the acknowledgment, one for each byte of
\* the frame
ReplyReads(p) == IF Len(p) + 3 < MaxReadCount THEN Len(p) + 3 ELSE MaxReadCount

ReplyInit ==
    /\ \E o \in Calls, p \in ReplyPayloads :
         /\ HasReply(o.name) /\ ~ArgsBad(o)
         /\ op = o /\ pkt = CmdFrame(o) /\ wlog = <<CmdFrame(o)>>
         /\ rbuf = <<Len(p) + 2, checksum(p)>> \o p
         /\ lastRead = [err |-> ErrNil, n |-> 1, data |-> <<p[Len(p)]>>]
         /\ nreads = ReplyReads(p)
         /\ lastWrite = [err |-> ErrNil, n |-> Len(CmdFrame(o))]
    /\ pc = "recv_ack" /\ attempt = 0 /\ rattempt = 0 /\ ticks = 0
    /\ ack = [b |-> CC_ACK, err |-> ErrNil]
    /\ sendRet = ErrNil /\ recvRet = "none" /\ ret = NoRet /\ ioerr = ErrNil
    /\ CodecIdle /\ ScenIdle

ReplyNext ==
    \/ RecvAck /\ UNCHANGED scenVars
    \/ Return /\ UNCHANGED scenVars

SpecReply == ReplyInit /\ [][ReplyNext]_vars

(***************************************************************************)
(* The running specification: the session specification in which every     *)
(* transport call is told from the one before by its parity, and in which  *)
(* the program never stops while a step is possible: a transport call that *)
(* is due is made and returns                                              *)
(***************************************************************************)
\* a call of port.Read or port.Write was made
TransportCall == tcalls' = 1 - tcalls /\ UNCHANGED <<hist, stream>>

LiveNext ==
    \/ Call /\ UNCHANGED scenVars
    \/ SyncWrite /\ TransportCall
    \/ SyncRead /\ TransportCall
    \/ SendWrite /\ TransportCall
    \/ SendAck /\ TransportCall
    \/ RecvSize /\ TransportCall
    \/ RecvByte /\ TransportCall
    \/ RecvNack /\ TransportCall
    \/ RecvAck /\ TransportCall
    \/ Return /\ UNCHANGED scenVars

SpecLive == Init /\ [][LiveNext]_vars /\ WF_vars(LiveNext)

(***************************************************************************)
(* The conforming-device specification: Sync is called, against any        *)
(* device, until it succeeds; from then on Ping, GetStatus, GetChipID,     *)
(* BankErase and Reset are called in any order against a device that       *)
(* answers every frame with ACK and sends well-formed reply frames, each   *)
(* byte within the read timeouts, with any 0x00 padding before it          *)
(***************************************************************************)
GoodOps == {"Ping", "GetStatus", "GetChipID", "BankErase", "Reset"}

\* the bytes received so far begin a well-formed reply frame: the size byte
\* announces a frame of 3 bytes or more, and bytes the device may send
\* complete them to a frame that decodePacket accepts
GoodPrefix(b) ==
    IF b = <<>> THEN TRUE
    ELSE /\ 3 <= b[1] /\ b[1] <= MaxFrameLen /\ Len(b) <= b[1]
         /\ (\E r \in [1..(b[1] - Len(b)) -> DataBytes] :
                decodePacket(b \o r).err = ErrNil) = TRUE

\* the read returned without error, with a byte or on a timeout after which
\* the receive loop goes on
GoodRead == lastRead'.err = ErrNil /\ lastRead'.n <= 1 /\ (lastRead'.n = 0 => ticks' = ticks + 1)

GoodCall ==
    /\ Call
    /\ IF hist = <<>> THEN op'.name = "Sync" ELSE op'.name \in GoodOps
    /\ UNCHANGED scenVars

GoodSendWrite == SendWrite /\ pc' = "send_ack" /\ UNCHANGED scenVars

GoodSendAck ==
    /\ SendAck
    /\ GoodRead /\ (lastRead'.n = 1 => lastRead'.data[1] \in {0, CC_ACK})
    /\ UNCHANGED scenVars

GoodRecvSize == RecvSize /\ GoodRead /\ GoodPrefix(rbuf') /\ UNCHANGED scenVars

GoodRecvByte == RecvByte /\ GoodRead /\ GoodPrefix(rbuf') /\ UNCHANGED scenVars

GoodRecvAck == RecvAck /\ recvRet' = ErrNil /\ UNCHANGED scenVars

\* the caller has the result: hist records Sync when it succeeded and, after
\* it, the calls that returned nil
GoodReturn ==
    /\ Return
    /\ hist' = IF ret.err # ErrNil \/ Len(hist) > MaxCalls THEN hist
               ELSE Append(hist, op.name)
    /\ tcalls' = tcalls /\ stream' = stream

GoodNext ==
    \/ GoodCall
    \/ SyncWrite /\ UNCHANGED scenVars
    \/ SyncRead /\ UNCHANGED scenVars
    \/ GoodSendWrite
    \/ GoodSendAck
    \/ GoodRecvSize
    \/ GoodRecvByte
    \/ GoodRecvAck
    \/ GoodReturn

SpecGood == Init /\ [][GoodNext]_vars

(***************************************************************************)
(* Vocabulary of the properties                                            *)
(***************************************************************************)
\* the sum of s[lo..hi], by halving
RECURSIVE SumRange(_, _, _)
SumRange(s, lo, hi) ==
    IF lo > hi THEN 0
    ELSE IF lo = hi THEN s[lo]
    ELSE LET mid == (lo + hi) \div 2 IN SumRange(s, lo, mid) + SumRange(s, mid + 1, hi)

\* frame[2:]
Rest(f) == [i \in 1..(Len(f) - 2) |-> f[i + 2]]

\* a frame as the wire format defines it: [size][checksum][payload]
WellFormed(f) ==
    /\ Len(f) >= 3
    /\ f[1] = Len(f) % 256
    /\ f[2] = SumRange(f, 3, Len(f)) % 256

\* an outcome of recvAck after which the frame has to be sent again
RetryAck(a) ==
    \/ a.err = ErrDeviceTimeout
    \/ a.err = ErrNil /\ a.b # 0 /\ a.b # 204

\* the single-byte writes of RecvPacket, which follow the n frame writes of
\* SendPacket
AckLogAfter(n) == SubSeq(wlog, n + 1, Len(wlog))
AckLog == IF op.name = "RecvPacket" THEN wlog ELSE AckLogAfter(attempt + 1)

InRecv == pc \in {"recv_size", "recv_byte", "recv_nack", "recv_ack"}

\* a read of Sync that is not the two bytes 0x00 0xCC
BadSyncRead(r) == r.err = ErrNil /\ r.data # <<0, 204>>

(***************************************************************************)
(* Properties of the link layer                                            *)
(***************************************************************************)
\* C1: SendPacket writes the same frame again after every attempt whose
\* acknowledgment read ended in a timeout or a nonzero byte other than ACK,
\* and returns nil as soon as an attempt reads ACK: it returns nil exactly
\* after an ACK, on attempt k <= 3, having written the identical frame k times.
C1_ResendUntilAck ==
    /\ (pc \in {"send_write", "send_ack"}) => (pkt = CmdFrame(op) /\ attempt < 3)
    /\ (pc = "send_write" /\ attempt > 0) => (RetryAck(ack) /\ wlog = Fill(attempt, pkt))
    /\ pc = "send_ack" => wlog = Fill(attempt + 1, pkt)
    /\ (RetryAck(ack) /\ sendRet = "none") => (pc \in {"send_write", "send_ack"} /\ attempt >= 1)
    /\ (RetryAck(ack) /\ sendRet # "none") =>
         \/ attempt = 3 /\ wlog = Fill(3, pkt) /\ sendRet = ErrDevice
         \/ /\ 1 <= attempt /\ attempt < 3 /\ wlog = Fill(attempt + 1, pkt)
            /\ sendRet \in (TransportErrs \cup {ErrSerial}) /\ ioerr = IoErrOf(sendRet)
    /\ (ack.err = ErrNil /\ ack.b = 204) => sendRet = ErrNil
    /\ sendRet = ErrNil =>
         /\ ack = [b |-> 204, err |-> ErrNil]
         /\ attempt + 1 <= 3
         /\ SubSeq(wlog, 1, attempt + 1) = Fill(attempt + 1, pkt)
         /\ \A i \in (attempt + 2)..Len(wlog) : Len(wlog[i]) = 1

C1_Witness ==
    /\ op.name = "Ping" /\ pc = "done" /\ ret.err = ErrNil
    /\ attempt = 2 /\ wlog = <<pkt, pkt, pkt>> /\ pkt = <<3, 32, 32>>

\* C2: when none of the 3 attempts of SendPacket reads ACK, SendPacket
\* returns ErrDevice after exactly 3 writes of the frame; a timeout of the
\* acknowledgment read is never what SendPacket returns.
C2_SendExhausted ==
    /\ sendRet = ErrDevice =>
         /\ pc = "done" /\ ret.err = ErrDevice
         /\ attempt = 3 /\ wlog = <<pkt, pkt, pkt>> /\ RetryAck(ack)
    /\ (attempt >= 3 /\ op.name # "Sync") => sendRet = ErrDevice
    /\ sendRet # ErrDeviceTimeout
    /\ ret.err = ErrDeviceTimeout => (sendRet # ErrDevice /\ recvRet = ErrDeviceTimeout)

C2_Witness ==
    /\ op.name = "GetStatus" /\ pc = "done" /\ ret.err = ErrDevice
    /\ sendRet = ErrDevice /\ ack.err = ErrDeviceTimeout /\ Len(wlog) = 3

\* C3: Sync makes at most 3 attempts, each one write of 0x55 0x55 followed by
\* one read; it returns nil at the first read that returns exactly 0x00 0xCC,
\* and if that is the first read it has made one write and one read.
C3_SyncAttempts ==
    op.name = "Sync" =>
      /\ Len(wlog) <= 3 /\ attempt <= 3
      /\ \A i \in 1..Len(wlog) : wlog[i] = <<85, 85>>
      /\ pc = "sync_write" => (Len(wlog) = attempt /\ nreads = attempt)
      /\ pc = "sync_read" => (Len(wlog) = attempt + 1 /\ nreads = attempt)
      /\ (pc = "done" /\ ret.err = ErrNil) =>
           /\ lastRead = [err |-> ErrNil, n |-> 2, data |-> <<0, 204>>]
           /\ Len(wlog) = attempt + 1 /\ nreads = attempt + 1
      /\ (nreads >= 1 /\ lastRead.err = ErrNil /\ lastRead.data = <<0, 204>>) =>
           (pc = "done" /\ ret.err = ErrNil)
      /\ (nreads = 1 /\ lastRead.data = <<0, 204>>) => wlog = << <<85, 85>> >>

C3_Witness ==
    /\ op.name = "Sync" /\ pc = "done" /\ ret.err = ErrNil
    /\ wlog = << <<85, 85>> >> /\ nreads = 1

\* C4: in Sync a read of a length other than 2 (0 on a timeout) or of two
\* other bytes uses up one attempt and the sync pattern is written again;
\* after 3 such attempts Sync returns ErrDevice, having written the pattern
\* exactly 3 times.
C4_SyncRetry ==
    op.name = "Sync" =>
      /\ (pc = "sync_write" /\ attempt > 0) =>
           (BadSyncRead(lastRead) /\ Len(wlog) = attempt /\ nreads = attempt)
      /\ (BadSyncRead(lastRead) /\ nreads >= 1) =>
           \/ pc = "sync_write" /\ attempt = nreads /\ attempt < 3
           \/ pc = "sync_read" /\ attempt = nreads /\ attempt < 3
           \/ pc = "done" /\ attempt = nreads /\ ret.err \in (TransportErrs \cup {ErrSerial})
           \/ pc = "done" /\ attempt = 3 /\ nreads = 3 /\ ret.err = ErrDevice
      /\ ret.err = ErrDevice =>
           /\ attempt = 3 /\ nreads = 3 /\ BadSyncRead(lastRead)
           /\ wlog = << <<85, 85>>, <<85, 85>>, <<85, 85>> >>

C4_Witness ==
    /\ op.name = "Sync" /\ pc = "done" /\ ret.err = ErrDevice
    /\ lastRead.n = 0 /\ Len(wlog) = 3

\* C5: a frame RecvPacket has received in full gets exactly one acknowledgment
\* byte: NACK (0x33) when it fails the size or checksum validation, after
\* which, while attempts remain, the receive starts again from a new size
\* byte; ACK (0xCC) when it validates, after which the payload is returned.
\* The buffer 05 00 28 00 00 (wrong checksum) is answered with the NACK.
C5_NackAndRetry ==
    /\ pc = "recv_nack" => (Len(rbuf) = rbuf[1] /\ ~WellFormed(rbuf))
    /\ pc = "recv_ack" => (Len(rbuf) = rbuf[1] /\ WellFormed(rbuf))
    /\ pc = "recv_byte" => (1 <= Len(rbuf) /\ Len(rbuf) < rbuf[1])
    /\ pc = "recv_size" => rbuf = <<>>
    /\ InRecv => (rattempt < 3 /\ AckLog = Fill(rattempt, <<51>>))
    /\ rbuf = <<5, 0, 40, 0, 0>> => pc = "recv_nack"
    /\ recvRet = ErrNil =>
         /\ pc = "done"
         /\ AckLog = Fill(rattempt, <<51>>) \o << <<204>> >>
         /\ WellFormed(rbuf)
         /\ op.name \in {"RecvPacket", "MemoryRead"} =>
              ret = [err |-> ErrNil, val |-> Rest(rbuf)]

C5_Witness ==
    /\ op.name = "RecvPacket" /\ pc = "recv_size" /\ rattempt = 1
    /\ wlog = << <<51>> >> /\ rbuf = <<>> /\ ticks = 0

\* C6: RecvPacket never returns ErrBadPacket; every malformed frame is
\* answered with a NACK, and when 3 frames in a row are malformed RecvPacket
\* returns ErrDevice after writing exactly 3 NACK bytes and no ACK byte.
C6_RecvExhausted ==
    /\ recvRet # ErrBadPacket /\ ret.err # ErrBadPacket
    /\ recvRet = ErrDevice =>
         /\ pc = "done" /\ ret.err = ErrDevice
         /\ rattempt = 3 /\ AckLog = << <<51>>, <<51>>, <<51>> >>
    /\ rattempt >= 3 => recvRet = ErrDevice
    /\ (pc = "done" /\ recvRet # "none" /\ rattempt < 3) => recvRet # ErrDevice

C6_Witness ==
    /\ op.name = "GetChipID" /\ pc = "done" /\ ret.err = ErrDevice
    /\ recvRet = ErrDevice /\ rattempt = 3 /\ Len(wlog) = attempt + 4

\* C7: when a transport read or write returns an error, the operation
\* returns that same error at once: the call is over (no retry, no further
\* transport call) and its result is the transport's error.
C7_TransportErrorPropagates ==
    /\ ioerr # ErrNil =>
         /\ pc = "done" /\ ret = [err |-> ioerr, val |-> <<>>]
         /\ sendRet \in {ioerr, ErrNil, "none"} /\ recvRet \in {ioerr, "none"}
    /\ lastRead.err # ErrNil => ioerr = lastRead.err
    /\ ret.err \in TransportErrs => ioerr = ret.err

C7_Witness ==
    /\ op.name = "GetChipID" /\ pc = "done" /\ ioerr = "EOF" /\ ret.err = "EOF"
    /\ recvRet = "EOF" /\ Len(rbuf) = 3 /\ rbuf[1] = 6

\* C10: MemoryRead with type 8-bit and count > 253, MemoryRead with type
\* 32-bit and count > 63, and SendData with more than 252 bytes return
\* ErrBadArguments with no transport read or write; with count 253, count 63
\* and 252 bytes the call is accepted and its first transport call writes the
\* command frame.
C10_ArgumentLimits ==
    /\ (\/ op.name = "MemoryRead" /\ op.typ = 0 /\ op.count > 253
        \/ op.name = "MemoryRead" /\ op.typ = 1 /\ op.count > 63
        \/ op.name = "SendData" /\ Len(op.data) > 252)
         => (pc = "done" /\ ret.err = ErrBadArguments /\ wlog = <<>> /\ nreads = 0)
    /\ ret.err = ErrBadArguments => (wlog = <<>> /\ nreads = 0)
    /\ (\/ op.name = "MemoryRead" /\ op.typ = 0 /\ op.count = 253
        \/ op.name = "MemoryRead" /\ op.typ = 1 /\ op.count = 63
        \/ op.name = "SendData" /\ Len(op.data) = 252)
         => /\ ret.err # ErrBadArguments
            /\ \/ pc = "send_write" /\ wlog = <<>> /\ nreads = 0
               \/ /\ Len(wlog) >= 1
                  /\ WellFormed(wlog[1])
                  /\ wlog[1][3] = (IF op.name = "MemoryRead" THEN 42 ELSE 36)
                  /\ Len(wlog[1]) = (IF op.name = "MemoryRead" THEN 9 ELSE 255)

C10_Witness ==
    /\ op.name = "MemoryRead" /\ op.typ = 0 /\ op.count = 254
    /\ pc = "done" /\ ret.err = ErrBadArguments /\ wlog = <<>> /\ nreads = 0

(***************************************************************************)
(* Properties of the packet codec (specification SpecCodec)                *)
(***************************************************************************)
\* what encodePacket has to produce for a payload of at most 253 bytes:
\* the true length in the size byte, the checksum, the payload
EncodedRight ==
    /\ Len(cframe) = Len(cpayload) + 2
    /\ cframe[1] = Len(cpayload) + 2
    /\ cframe[2] = SumRange(cpayload, 1, Len(cpayload)) % 256
    /\ Rest(cframe) = cpayload

\* C8 (as claimed): for every payload P of 0 to 253 bytes,
\* decodePacket(encodePacket(P)) succeeds and returns P.
C8_RoundTripFromEmpty ==
    (cpc = "decoded" /\ csrc = "payload" /\ ccorrupt = 0 /\ Len(cpayload) <= 253) =>
        cdec = [err |-> ErrNil, data |-> cpayload]

\* C8 (amended): for every payload P of 1 to 253 bytes,
\* decodePacket(encodePacket(P)) succeeds and returns P; encodePacket has no
\* error path and represents every payload of at most 253 bytes, the empty
\* one included, whose frame 02 00 decodePacket refuses with ErrBadPacket.
C8_RoundTrip ==
    /\ (csrc = "payload" /\ cpc = "encoded" /\ ccorrupt = 0 /\ Len(cpayload) <= 253) =>
          EncodedRight
    /\ (cpc = "decoded" /\ csrc = "payload" /\ ccorrupt = 0) =>
          /\ (1 <= Len(cpayload) /\ Len(cpayload) <= 253) =>
                cdec = [err |-> ErrNil, data |-> cpayload]
          /\ Len(cpayload) = 0 =>
                (cframe = <<2, 0>> /\ cdec.err = ErrBadPacket)

C8_Witness ==
    /\ cpc = "decoded" /\ csrc = "payload" /\ ccorrupt = 0
    /\ Len(cpayload) = 253 /\ cpayload[1] = 255
    /\ cdec = [err |-> ErrNil, data |-> cpayload]

\* C9: decodePacket(frame) returns ErrBadPacket exactly when len(frame) < 3,
\* or frame[0] # len(frame) mod 256, or frame[1] # sum(frame[2:]) mod 256, and
\* otherwise returns frame[2:]; an encoded frame whose size byte alone, or
\* whose checksum byte alone, was changed is refused with ErrBadPacket.
C9_DecodeExact ==
    cpc = "decoded" =>
      /\ cdec.err \in {ErrNil, ErrBadPacket}
      /\ cdec.err = ErrBadPacket <=>
           (\/ Len(cframe) < 3
            \/ cframe[1] # Len(cframe) % 256
            \/ cframe[2] # SumRange(cframe, 3, Len(cframe)) % 256)
      /\ cdec.err = ErrNil => cdec.data = Rest(cframe)
      /\ ccorrupt \in {1, 2} => cdec.err = ErrBadPacket

C9_Witness ==
    /\ cpc = "decoded" /\ csrc = "payload" /\ ccorrupt = 2
    /\ Len(cpayload) = 253 /\ cdec.err = ErrBadPacket

(***************************************************************************)
(* Properties of the session commands                                      *)
(***************************************************************************)
\* the frame writes of a command: SendPacket's writes (the one-byte writes
\* are RecvPacket's acknowledgments)
IsFrameWrite(w) == Len(w) > 1

\* C11 (as claimed): MemoryWrite returns ErrBadArguments, with no transport
\* read or write, for every data length above 247 in 8-bit mode and above 244
\* in 32-bit mode, lengths of 256 bytes and more included, and is accepted at
\* the lengths 247 and 244.
C11_WriteLimits ==
    /\ (/\ op.name = "MemoryWrite"
        /\ \/ op.typ = 0 /\ Len(op.data) > 247
           \/ op.typ = 1 /\ Len(op.data) > 244)
         => (pc = "done" /\ ret.err = ErrBadArguments /\ wlog = <<>> /\ nreads = 0)
    /\ (/\ op.name = "MemoryWrite"
        /\ \/ op.typ = 0 /\ Len(op.data) = 247
           \/ op.typ = 1 /\ Len(op.data) = 244)
         => ret.err # ErrBadArguments

\* MemoryWrite of 256 bytes in 8-bit mode was accepted: the frame of 264
\* bytes was written, with 8 in its size byte, and acknowledged
C11_Witness ==
    /\ op.name = "MemoryWrite" /\ op.typ = 0 /\ Len(op.data) = 256
    /\ pc = "done" /\ ret.err = ErrNil
    /\ Len(wlog[1]) = 264 /\ wlog[1][1] = 8 /\ wlog[1][3] = 43

\* C12 (as claimed): every frame written by a session command that was not
\* refused with ErrBadArguments is at most 255 bytes long (payload at most
\* 253), so that its size byte is its true length and its checksum byte is the
\* sum of its payload bytes mod 256.
C12_FramesFit ==
    (op.name \notin {"none", "Sync", "RecvPacket"} /\ ret.err # ErrBadArguments) =>
        \A i \in 1..Len(wlog) :
            IsFrameWrite(wlog[i]) =>
                /\ Len(wlog[i]) <= 255
                /\ wlog[i][1] = Len(wlog[i])
                /\ wlog[i][2] = SumRange(wlog[i], 3, Len(wlog[i])) % 256

\* MemoryWrite of 260 bytes in 32-bit mode wrote a frame of 268 bytes whose
\* size byte is 12
C12_Witness ==
    /\ op.name = "MemoryWrite" /\ op.typ = 1 /\ Len(op.data) = 260
    /\ pc = "send_ack" /\ Len(wlog) = 1
    /\ Len(wlog[1]) = 268 /\ wlog[1][1] = 12

\* C13 (as claimed): a 32-bit MemoryWrite whose data length is not a multiple
\* of 4 is refused: it returns an error and writes no frame.
C13_UnalignedRejected ==
    (op.name = "MemoryWrite" /\ op.typ = 1 /\ Len(op.data) % 4 # 0) =>
        /\ pc = "done"
        /\ ret.err \notin {ErrNil, "none"}
        /\ wlog = <<>>

\* MemoryWrite of 3 bytes in 32-bit mode wrote its frame and returned nil
C13_Witness ==
    /\ op.name = "MemoryWrite" /\ op.typ = 1 /\ Len(op.data) = 3
    /\ pc = "done" /\ ret.err = ErrNil
    /\ wlog = << <<11, 57, 43, 1, 2, 3, 4, 1, 1, 1, 1>> >>

\* C14 (as claimed): the frame SetCCFG writes has the command type 0x2D (45)
\* as its first payload byte, followed by the field id and the value as
\* big-endian 32-bit numbers.
C14_SetCCFGType ==
    (op.name = "SetCCFG" /\ Len(wlog) >= 1) =>
        /\ Len(wlog[1]) = 11
        /\ wlog[1][3] = 45
        /\ op.a = wlog[1][4] * 16777216 + wlog[1][5] * 65536 + wlog[1][6] * 256 + wlog[1][7]
        /\ op.b = wlog[1][8] * 16777216 + wlog[1][9] * 65536 + wlog[1][10] * 256 + wlog[1][11]

\* SetCCFG(14, 0x01020304) wrote a frame whose command type byte is 0x27 (39),
\* the type of CRC32
C14_Witness ==
    /\ op.name = "SetCCFG" /\ op.a = 14 /\ op.b = 16909060
    /\ wlog = << <<11, 63, 39, 0, 0, 0, 14, 1, 2, 3, 4>> >>

\* the payload of the frame RecvPacket accepted, and its first four bytes as
\* a number, most significant byte first
ReplyPayload == Rest(rbuf)
ReplyU32 == rbuf[3] * 16777216 + rbuf[4] * 65536 + rbuf[5] * 256 + rbuf[6]

\* the error kinds a public operation may return
ErrorKinds ==
    {ErrSerial, ErrDevice, ErrDeviceTimeout, ErrBadPacket, ErrBadArguments} \cup TransportErrs

\* C15 (as claimed): CRC32 returns the big-endian number of a 4-byte reply
\* payload or one of the error kinds; a well-formed reply whose payload is not
\* 4 bytes long makes it return a device error, never abort the program
\* and never return a value.
C15_CRC32ReplyShape ==
    (op.name = "CRC32" /\ pc = "done") =>
        /\ ret.err \in ({ErrNil} \cup ErrorKinds)
        /\ recvRet = ErrNil =>
             IF Len(ReplyPayload) = 4
             THEN ret = [err |-> ErrNil, val |-> <<ReplyU32>>]
             ELSE ret = [err |-> ErrDevice, val |-> <<>>]

\* CRC32 received and acknowledged the well-formed frame 03 01 01 (a payload
\* of one byte) and the call ended in the run-time panic of data[1]
C15_Witness ==
    /\ op.name = "CRC32" /\ pc = "done" /\ recvRet = ErrNil
    /\ rbuf = <<3, 1, 1>> /\ ret.err = Panic

\* C16: GetChipID returns the reply payload read as a big-endian 32-bit
\* number (b0*2^24 + b1*2^16 + b2*2^8 + b3; the payload 00 00 01 00 gives 256)
\* when the payload RecvPacket returned is exactly 4 bytes long, and ErrDevice
\* for a payload of every other length; it returns a value in no other case.
C16_ChipID ==
    op.name = "GetChipID" =>
        /\ recvRet = ErrNil =>
             /\ pc = "done"
             /\ IF Len(ReplyPayload) = 4
                THEN ret = [err |-> ErrNil, val |-> <<ReplyU32>>]
                ELSE ret = [err |-> ErrDevice, val |-> <<>>]
             /\ ReplyPayload = <<0, 0, 1, 0>> => ret = [err |-> ErrNil, val |-> <<256>>]
        /\ (pc = "done" /\ ret.err = ErrNil) => (recvRet = ErrNil /\ Len(ReplyPayload) = 4)
        /\ ret.err # ErrNil => ret.val = <<>>

C16_Witness ==
    /\ op.name = "GetChipID" /\ pc = "done" /\ recvRet = ErrNil
    /\ rbuf = <<6, 1, 0, 0, 1, 0>> /\ ret = [err |-> ErrNil, val |-> <<256>>]

\* C18 (as claimed): a MemoryRead that returns a value returns exactly count
\* bytes in 8-bit mode and 4 * count bytes in 32-bit mode; a reply whose
\* payload has another length is not returned as a value.
C18_ReadLength ==
    (op.name = "MemoryRead" /\ pc = "done" /\ ret.err = ErrNil) =>
        Len(ret.val) = (IF op.typ = 0 THEN op.count ELSE 4 * op.count)

\* MemoryRead(8-bit, count 253) returned the 1-byte payload of the reply
\* 03 01 01 as its value
C18_Witness ==
    /\ op.name = "MemoryRead" /\ op.typ = 0 /\ op.count = 253
    /\ pc = "done" /\ rbuf = <<3, 1, 1>> /\ ret = [err |-> ErrNil, val |-> <<1>>]

(***************************************************************************)
(* Termination (specification SpecLive)                                    *)
(***************************************************************************)
\* a public operation is running
Running == pc \notin {"idle", "done"}

\* C19 (as claimed): every public operation that was called returns, with a
\* value or an error, whatever bytes the device sends (an endless stream of
\* 0x00 bytes included), as long as every transport read and write returns.
C19_Terminates == Running ~> (pc = "done")

\* SendPacket waits for the acknowledgment and has just read and dropped a
\* 0x00 byte: it is where it was before the read
C19_Witness ==
    /\ op.name = "Ping" /\ pc = "send_ack" /\ attempt = 0 /\ ticks = 0
    /\ lastRead = [err |-> ErrNil, n |-> 1, data |-> <<0>>]
    /\ nreads = MaxReadCount

(***************************************************************************)
(* Properties of the reply decoding (specification SpecReply)              *)
(***************************************************************************)
\* C17: GetStatus returns the single byte of the reply payload as the Status,
\* whatever its value (all 256 values, the unrecognized ones included), when
\* the payload RecvPacket returned is exactly 1 byte long, and ErrDevice for
\* a payload of every other length; it returns a value in no other case.
C17_StatusByte ==
    op.name = "GetStatus" =>
        /\ recvRet = ErrNil =>
             /\ pc = "done"
             /\ IF Len(ReplyPayload) = 1
                THEN ret = [err |-> ErrNil, val |-> <<rbuf[3]>>]
                ELSE ret = [err |-> ErrDevice, val |-> <<>>]
        /\ (pc = "done" /\ ret.err = ErrNil) => (recvRet = ErrNil /\ Len(ReplyPayload) = 1)
        /\ ret.err # ErrNil => ret.val = <<>>

C17_Witness ==
    /\ op.name = "GetStatus" /\ pc = "done" /\ recvRet = ErrNil
    /\ rbuf = <<3, 255, 255>> /\ ret = [err |-> ErrNil, val |-> <<255>>]

(***************************************************************************)
(* Properties of a session with a conforming device (specification         *)
(* SpecGood)                                                               *)
(***************************************************************************)
\* the reply RecvPacket returned has not the payload length its command
\* expects
ReplyMisshaped ==
    \/ op.name = "GetStatus" /\ Len(ReplyPayload) # 1
    \/ op.name = "GetChipID" /\ Len(ReplyPayload) # 4

\* C20 (as claimed): after a successful Sync, against a device that answers
\* every command frame with ACK and GetStatus and GetChipID with a
\* well-formed reply frame, every call in any sequence of Ping, GetStatus,
\* GetChipID, BankErase and Reset returns without error.
C20_AllSucceed == (hist # <<>> /\ pc = "done") => ret.err = ErrNil

\* C20 (amended): after a successful Sync, against such a device, every call
\* in any sequence of Ping, GetStatus, GetChipID, BankErase and Reset writes
\* its frame once and returns without error, provided the well-formed reply to
\* GetStatus carries a payload of 1 byte and the one to GetChipID a payload of
\* 4 bytes; a well-formed reply of another payload length makes that call
\* return ErrDevice, and the calls after it are not affected.
C20_AllSucceedOnShape ==
    hist # <<>> =>
        /\ hist[1] = "Sync" /\ \A i \in 2..Len(hist) : hist[i] \in GoodOps
        /\ pc # "idle" => op.name \in GoodOps
        /\ pc = "done" =>
             /\ attempt = 0 /\ rattempt = 0 /\ wlog[1] = pkt
             /\ \A i \in 2..Len(wlog) : wlog[i] = <<204>>
             /\ ret.err = (IF ReplyMisshaped THEN ErrDevice ELSE ErrNil)

C20_Witness ==
    /\ hist = <<"Sync", "GetStatus", "GetChipID">>
    /\ op.name = "Reset" /\ pc = "done" /\ ret.err = ErrNil

(***************************************************************************)
(* Resuming after an error (specification SpecResume)                      *)
(*                                                                         *)
(* hist = <<>>: calls of any kind against any device, until one returns an *)
(* error kind e; hist = <<e>>: the caller calls Sync and the device        *)
(* answers the sync pattern with 00 CC; hist = <<e, "Sync">>: commands     *)
(* against any device again.                                               *)
(***************************************************************************)
\* the commands called after the session was resumed
ResumeOps == {"Ping", "GetStatus", "GetChipID"}

\* the device's answer to the sync pattern
SyncAnswer == [err |-> ErrNil, n |-> 2, data |-> <<0, CC_ACK>>]

ResumeCall ==
    /\ Call
    /\ Len(hist) = 1 => op'.name = "Sync"
    /\ Len(hist) = 2 => op'.name \in ResumeOps
    /\ UNCHANGED scenVars

ResumeSyncWrite ==
    /\ SyncWrite
    /\ Len(hist) = 1 => pc' = "sync_read"
    /\ UNCHANGED scenVars

ResumeSyncRead ==
    /\ SyncRead
    /\ Len(hist) = 1 => lastRead' = SyncAnswer
    /\ UNCHANGED scenVars

ResumeReturn ==
    /\ Return
    /\ hist' = IF hist = <<>> /\ ret.err \in ErrorKinds THEN <<ret.err>>
               ELSE IF Len(hist) = 1 /\ ret.err = ErrNil THEN Append(hist, op.name)
               ELSE hist
    /\ tcalls' = tcalls /\ stream' = stream

ResumeNext ==
    \/ ResumeCall
    \/ ResumeSyncWrite
    \/ ResumeSyncRead
    \/ SendWrite /\ UNCHANGED scenVars
    \/ SendAck /\ UNCHANGED scenVars
    \/ RecvSize /\ UNCHANGED scenVars
    \/ RecvByte /\ UNCHANGED scenVars
    \/ RecvNack /\ UNCHANGED scenVars
    \/ RecvAck /\ UNCHANGED scenVars
    \/ ResumeReturn

SpecResume == Init /\ [][ResumeNext]_vars

\* C21: whatever error kind a public operation returned, a Sync called next
\* against a device that answers the sync pattern with 00 CC returns nil on
\* its first attempt (one write of the pattern, one read), and the session
\* is then as it was when it was new: between calls it holds no state, and a
\* command called after the Sync starts from its first attempt with the
\* frame of its own arguments.
C21_ResumeAfterError ==
    /\ pc = "idle" => SessionIdle
    /\ Len(hist) = 1 =>
         /\ hist[1] \in ErrorKinds
         /\ op.name \in {"none", "Sync"}
         /\ pc = "done" => /\ ret = [err |-> ErrNil, val |-> <<>>]
                           /\ attempt = 0 /\ wlog = <<CC_SYNC>> /\ nreads = 1
    /\ Len(hist) = 2 =>
         /\ hist[1] \in ErrorKinds /\ hist[2] = "Sync"
         /\ pc = "send_write" /\ wlog = <<>> =>
              /\ attempt = 0 /\ rattempt = 0 /\ ticks = 0 /\ nreads = 0
              /\ pkt = CmdFrame(op) /\ rbuf = <<>>
              /\ sendRet = "none" /\ recvRet = "none" /\ ret = NoRet
         /\ (pc = "done" /\ attempt = 0 /\ ack = [b |-> CC_ACK, err |-> ErrNil]) =>
              wlog[1] = CmdFrame(op) /\ sendRet = ErrNil

\* a GetStatus timed out, Sync was called and succeeded, and the GetStatus
\* called after it returned a status
C21_Witness ==
    /\ hist = <<ErrDeviceTimeout, "Sync">>
    /\ op.name = "GetStatus" /\ pc = "done" /\ ret.err = ErrNil /\ attempt = 0

(***************************************************************************)
(* Command frames                                                          *)
(***************************************************************************)
\* the command type byte of the bootloader's command table
TableType(name) ==
    CASE name = "Ping" -> 32
      [] name = "Download" -> 33
      [] name = "GetStatus" -> 35
      [] name = "SendData" -> 36
      [] name = "Reset" -> 37
      [] name = "SectorErase" -> 38
      [] name = "CRC32" -> 39
      [] name = "GetChipID" -> 40
      [] name = "MemoryRead" -> 42
      [] name = "MemoryWrite" -> 43
      [] name = "BankErase" -> 44

TableNames ==
    {"Ping", "Download", "GetStatus", "SendData", "Reset", "SectorErase", "CRC32",
     "GetChipID", "MemoryRead", "MemoryWrite", "BankErase"}

\* bits 8k+7 .. 8k of x
Bits(x, k) == (x \div (2 ^ (8 * k))) % 256

\* a u32 parameter on the wire
Wire32(x) == <<Bits(x, 3), Bits(x, 2), Bits(x, 1), Bits(x, 0)>>

\* the parameter bytes of each command of the table
TableParams(o) ==
    CASE o.name = "Download" -> Wire32(o.a) \o Wire32(o.b)
      [] o.name = "SendData" -> o.data
      [] o.name = "SectorErase" -> Wire32(o.a)
      [] o.name = "CRC32" -> Wire32(o.a) \o Wire32(o.b) \o Wire32(o.c)
      [] o.name = "MemoryRead" -> Wire32(o.a) \o <<o.typ, o.count>>
      [] o.name = "MemoryWrite" -> Wire32(o.a) \o <<o.typ>> \o o.data
      [] OTHER -> <<>>

\* C22: the frame of each command of the table is [size][checksum][command
\* type][parameters], with the type byte of the table and every u32
\* parameter as 4 bytes, most significant first; it is the frame SendPacket
\* writes.  (The size byte is checked where the frame length fits in it.)
C22_CommandFrames ==
    (op.name \in TableNames /\ pkt # <<>>) =>
        /\ Len(pkt) = 3 + Len(TableParams(op))
        /\ Len(pkt) <= 255 => pkt[1] = Len(pkt)
        /\ pkt[2] = (TableType(op.name) + SumRange(TableParams(op), 1, Len(TableParams(op)))) % 256
        /\ pkt[3] = TableType(op.name)
        /\ \A i \in 1..Len(TableParams(op)) : pkt[3 + i] = TableParams(op)[i]
        /\ \A i \in 1..Len(wlog) : IsFrameWrite(wlog[i]) => wlog[i] = pkt
        /\ op.name = "Download" /\ op.a = 16909060 /\ op.b = 0 =>
             pkt = <<11, 43, 33, 1, 2, 3, 4, 0, 0, 0, 0>>

\* CRC32(0x01020304, 0x05060708, 1) was written and acknowledged
C22_Witness ==
    /\ op.name = "CRC32" /\ op.a = 16909060 /\ pc = "recv_size"
    /\ wlog = << <<15, 76, 39, 1, 2, 3, 4, 5, 6, 7, 8, 0, 0, 0, 1>> >>

(***************************************************************************)
(* The checksum (specification SpecCodec)                                  *)
(***************************************************************************)
\* C23: the checksum byte encodePacket writes is the sum of the payload's
\* bytes mod 256, for payloads of any length (256 bytes of 0x01 give 0x00),
\* and decodePacket accepts a frame only if its checksum byte is that sum of
\* the bytes after it.
C23_ChecksumMod256 ==
    /\ (csrc = "payload" /\ cpc \in {"encoded", "decoded"} /\ ccorrupt # 2) =>
         /\ cframe[2] = SumRange(cpayload, 1, Len(cpayload)) % 256
         /\ cpayload = Fill(256, 1) => cframe[2] = 0
         /\ cpayload = Fill(255, 255) => cframe[2] = 1
    /\ (cpc = "decoded" /\ cdec.err = ErrNil) =>
         cframe[2] = SumRange(cframe, 3, Len(cframe)) % 256

\* 256 bytes of 0x01 were encoded: the checksum byte is 0x00
C23_Witness ==
    /\ cpc = "encoded" /\ ccorrupt = 0
    /\ cpayload = Fill(256, 1) /\ cframe[2] = 0 /\ Len(cframe) = 258

(***************************************************************************)
(* Byte-level reception                                                    *)
(***************************************************************************)
\* the read just made returned no byte / the byte b, without error
ReadTimedOut == lastRead'.err = ErrNil /\ lastRead'.n = 0
ReadGave(b) == lastRead'.err = ErrNil /\ lastRead'.n = 1 /\ lastRead'.data = <<b>>

C25_AckAfterPadding ==
    [][pc = "send_ack" =>
         /\ ReadGave(0) =>
              /\ pc' = "send_ack"
              /\ UNCHANGED <<attempt, ticks, wlog, ack, sendRet, ret, pkt>>
         /\ ReadGave(CC_ACK) =>
              /\ sendRet' = ErrNil /\ ack' = [b |-> CC_ACK, err |-> ErrNil]
              /\ UNCHANGED <<attempt, wlog>>
              /\ Len(wlog) = attempt + 1
              /\ pc' = IF HasReply(op.name) THEN "recv_size" ELSE "done"
      ]_vars

\* Ping wrote its frame once and has read and dropped one 0x00 byte
C25_Witness ==
    /\ op.name = "Ping" /\ pc = "send_ack" /\ attempt = 0 /\ ticks = 0
    /\ lastRead = [err |-> ErrNil, n |-> 1, data |-> <<0>>]
    /\ nreads = 1 /\ wlog = <<pkt>>

(***************************************************************************)
(* The stream specification: RecvPacket is called while the device's bytes *)
(* are on the line: 0x00 padding, then possibly one stray acknowledgment   *)
(* byte, then one frame (as encoded, or with its checksum byte off by one),*)
(* then nothing.  Each Read returns the next byte of the stream, or times  *)
(* out when the device has sent everything; every Write succeeds.          *)
(***************************************************************************)
StreamPayloads == SeqsUpTo(DataBytes, MaxFrameLen - 2) \ {<<>>}

StreamFrames ==
    {encodePacket(p) : p \in StreamPayloads}
      \cup {[encodePacket(p) EXCEPT ![2] = (@ + 1) % 256] : p \in StreamPayloads}

StreamStrays == {<<>>, <<CC_ACK>>, <<CC_NACK>>}

Streams == {Fill(n, 0) \o s \o f : n \in 0..MaxPad, s \in StreamStrays, f \in StreamFrames}

\* the values of a byte on the line
StreamBytes == 0..255

\* port.Read of one byte from the stream
StreamRead ==
    IF stream.pos < Len(stream.bytes)
    THEN /\ lastRead' = [err |-> ErrNil, n |-> 1, data |-> <<stream.bytes[stream.pos + 1]>>]
         /\ stream' = [stream EXCEPT !.pos = @ + 1]
    ELSE /\ lastRead' = NoRead
         /\ stream' = stream

StreamCall ==
    /\ Call
    /\ op'.name = "RecvPacket"
    /\ stream' \in {[bytes |-> s, pos |-> 0] : s \in Streams}
    /\ UNCHANGED <<hist, tcalls>>

StreamRecvSize == StreamRead /\ RecvSizeFrom(StreamBytes) /\ UNCHANGED <<hist, tcalls>>

StreamRecvByte == StreamRead /\ RecvByteFrom(StreamBytes) /\ UNCHANGED <<hist, tcalls>>

StreamRecvNack == RecvNack /\ recvRet' \in {"none", ErrDevice} /\ UNCHANGED scenVars

StreamRecvAck == RecvAck /\ recvRet' = ErrNil /\ UNCHANGED scenVars

StreamReturn == Return /\ stream' = NoStream /\ UNCHANGED <<hist, tcalls>>

StreamNext ==
    \/ StreamCall
    \/ StreamRecvSize
    \/ StreamRecvByte
    \/ StreamRecvNack
    \/ StreamRecvAck
    \/ StreamReturn

SpecStream == Init /\ [][StreamNext]_vars

\* the number of 0x00 bytes s begins with, and s without them
LeadZeros(s) ==
    CHOOSE k \in 0..Len(s) : /\ \A i \in 1..k : s[i] = 0
                             /\ k = Len(s) \/ s[k + 1] # 0
Unpadded(s) == SubSeq(s, LeadZeros(s) + 1, Len(s))

\* C26: when the stream is any number of 0x00 bytes followed by a
\* well-formed frame with payload P, RecvPacket takes the first nonzero byte
\* of the stream as the size byte, keeps every byte after it (0x00 bytes
\* included), never counts a timeout, acknowledges once and returns exactly P.
C26_PaddedFrame ==
    LET f == Unpadded(stream.bytes) IN
    (op.name = "RecvPacket" /\ WellFormed(f)) =>
        /\ rbuf = SubSeq(f, 1, Len(rbuf))
        /\ stream.pos > LeadZeros(stream.bytes) => rbuf # <<>> /\ rbuf[1] = f[1]
        /\ rattempt = 0 /\ ticks = 0
        /\ pc # "done" => wlog = <<>>
        /\ pc = "done" =>
             /\ rbuf = f
             /\ ret = [err |-> ErrNil, val |-> Rest(f)]
             /\ wlog = << <<CC_ACK>> >>

\* two 0x00 bytes, then the frame of the payload 00 01: RecvPacket returned
\* 00 01
C26_Witness ==
    /\ stream = [bytes |-> <<0, 0, 4, 1, 0, 1>>, pos |-> 6]
    /\ op.name = "RecvPacket" /\ pc = "done"
    /\ ret = [err |-> ErrNil, val |-> <<0, 1>>]

\* C27 (as claimed): when one stray ACK or NACK byte precedes a well-formed
\* reply frame in the stream, RecvPacket still returns the payload of that
\* frame.
C27_StrayAckTolerated ==
    LET s == Unpadded(stream.bytes) IN
    (/\ op.name = "RecvPacket" /\ pc = "done"
     /\ Len(s) > 1 /\ s[1] \in {CC_ACK, CC_NACK} /\ WellFormed(Tail(s)))
      => ret = [err |-> ErrNil, val |-> Rest(Tail(s))]

\* a stray ACK byte, then the frame 03 01 01: RecvPacket took 0xCC for the
\* size byte, filled the next positions with the frame, read nothing more
\* and returned the timeout, writing no acknowledgment
C27_Witness ==
    /\ stream = [bytes |-> <<CC_ACK, 3, 1, 1>>, pos |-> 4]
    /\ op.name = "RecvPacket" /\ pc = "done"
    /\ rbuf = <<CC_ACK, 3, 1, 1>> /\ wlog = <<>>
    /\ ret = [err |-> ErrDeviceTimeout, val |-> <<>>]

(***************************************************************************)
(* Request, then reply                                                     *)
(***************************************************************************)
\* the commands the bootloader answers with a reply frame
ReplyNames == {"GetStatus", "GetChipID", "CRC32", "MemoryRead"}

\* RecvPacket was entered by the running call
RecvEntered == InRecv \/ recvRet # "none" \/ rbuf # <<>>

\* C28: in a command, RecvPacket is entered only by GetStatus, GetChipID,
\* CRC32 and MemoryRead, and only after SendPacket returned nil on reading an
\* ACK for the command frame; when SendPacket fails the command returns its
\* error at once, having read no reply byte and written nothing but the
\* frame; a command without a reply writes nothing but its frame and returns
\* what SendPacket returned.
C28_RequestThenReply ==
    op.name \notin {"none", "Sync", "RecvPacket"} =>
        /\ RecvEntered =>
             /\ op.name \in ReplyNames
             /\ sendRet = ErrNil /\ ack = [b |-> CC_ACK, err |-> ErrNil]
             /\ wlog # <<>> /\ wlog[1] = pkt /\ Len(wlog) >= attempt + 1
             /\ \A i \in 1..(attempt + 1) : wlog[i] = pkt
        /\ sendRet \notin {"none", ErrNil} =>
             /\ pc = "done" /\ ret = [err |-> sendRet, val |-> <<>>]
             /\ ~RecvEntered
             /\ \A i \in 1..Len(wlog) : wlog[i] = pkt
        /\ op.name \notin ReplyNames =>
             /\ ~RecvEntered
             /\ \A i \in 1..Len(wlog) : wlog[i] = pkt
             /\ sendRet # "none" => pc = "done" /\ ret = [err |-> sendRet, val |-> <<>>]
        /\ (op.name \in ReplyNames /\ sendRet = ErrNil) => RecvEntered

\* GetStatus wrote its frame three times, read no ACK and returned
\* ErrDevice: no reply was read, no acknowledgment byte written
C28_Witness ==
    /\ op.name = "GetStatus" /\ pc = "done" /\ sendRet = ErrDevice
    /\ ret.err = ErrDevice /\ wlog = <<pkt, pkt, pkt>>
    /\ recvRet = "none" /\ rbuf = <<>> /\ ack = [b |-> CC_NACK, err |-> ErrNil]

(***************************************************************************)
(* Calls in any order against a device that does not answer (specification *)
(* SpecSilent): every Write succeeds and every Read times out, except that *)
(* the device may answer Sync.  hist is the call that returned last and    *)
(* what it returned.                                                       *)
(***************************************************************************)
SilentSyncWrite == SyncWrite /\ pc' = "sync_read" /\ UNCHANGED scenVars

SilentSyncRead == SyncRead /\ lastRead' \in {NoRead, SyncAnswer} /\ UNCHANGED scenVars

SilentSendWrite == SendWrite /\ pc' = "send_ack" /\ UNCHANGED scenVars

SilentSendAck == SendAck /\ lastRead' = NoRead /\ UNCHANGED scenVars

SilentRecvSize == RecvSize /\ lastRead' = NoRead /\ UNCHANGED scenVars

SilentReturn ==
    /\ Return
    /\ hist' = <<op.name, ret.err>>
    /\ tcalls' = tcalls /\ stream' = stream

SilentNext ==
    \/ Call /\ UNCHANGED scenVars
    \/ SilentSyncWrite
    \/ SilentSyncRead
    \/ SilentSendWrite
    \/ SilentSendAck
    \/ SilentRecvSize
    \/ SilentReturn

SpecSilent == Init /\ [][SilentNext]_vars

\* C29: between calls the session holds nothing of the calls made before;
\* and with the transport's results fixed (writes succeed, reads time out)
\* what a call writes and returns is determined by the call and its
\* arguments alone, whatever call returned before it and whether or not a
\* Sync ever succeeded: a command writes its frame three times and returns
\* ErrDevice, RecvPacket writes nothing and returns ErrDeviceTimeout, and
\* only a bad argument is refused before the frame is written.
C29_NoSessionState ==
    /\ pc = "idle" => SessionIdle
    /\ (pc # "idle" /\ op.name = "Sync") =>
         /\ \A i \in 1..Len(wlog) : wlog[i] = CC_SYNC
         /\ pc = "done" =>
              \/ ret = [err |-> ErrNil, val |-> <<>>] /\ lastRead = SyncAnswer
              \/ ret = [err |-> ErrDevice, val |-> <<>>] /\ Len(wlog) = 3
    /\ (pc # "idle" /\ op.name = "RecvPacket") =>
         /\ wlog = <<>>
         /\ pc = "done" => ret = [err |-> ErrDeviceTimeout, val |-> <<>>]
    /\ (pc # "idle" /\ op.name \notin {"Sync", "RecvPacket"}) =>
         IF ArgsBad(op)
         THEN pc = "done" /\ wlog = <<>> /\ ret = [err |-> ErrBadArguments, val |-> <<>>]
         ELSE /\ \A i \in 1..Len(wlog) : wlog[i] = CmdFrame(op)
              /\ pc = "send_ack" => Len(wlog) = attempt + 1
              /\ pc = "done" =>
                   /\ wlog = <<CmdFrame(op), CmdFrame(op), CmdFrame(op)>>
                   /\ ret = [err |-> ErrDevice, val |-> <<>>]

\* the first call made on the session, a Ping, failed, no Sync was ever
\* called, and the GetStatus called next wrote its frame three times and
\* returned ErrDevice
C29_Witness ==
    /\ hist = <<"Ping", ErrDevice>>
    /\ op.name = "GetStatus" /\ pc = "done"
    /\ ret.err = ErrDevice /\ wlog = <<pkt, pkt, pkt>> /\ pkt = <<3, 35, 35>>

(***************************************************************************)
(* The retry budget                                                        *)
(***************************************************************************)
\* the number of writes of the buffer w made by the running call
Writes(w) == Cardinality({i \in 1..Len(wlog) : wlog[i] = w})

\* Sync, SendPacket, RecvPacket have used up their attempts
SyncGaveUp == op.name = "Sync" /\ pc = "done" /\ ret.err = ErrDevice
SendGaveUp == sendRet = ErrDevice
RecvGaveUp == recvRet = ErrDevice

\* C30 (as claimed): Sync, SendPacket and RecvPacket make 3 attempts beyond
\* the first before failing with ErrDevice: 4 writes of the sync pattern, 4
\* writes of the frame, 4 refused frames.
C30_FourAttempts ==
    /\ SyncGaveUp => Writes(CC_SYNC) = 4
    /\ SendGaveUp => Writes(pkt) = 4
    /\ RecvGaveUp => Writes(<<CC_NACK>>) = 4

\* C30 (amended): Sync, SendPacket and RecvPacket make at most 3 attempts,
\* the first included, and fail with ErrDevice when the third has failed:
\* the sync pattern and the frame are written at most 3 times, and at most 3
\* frames are refused with a NACK.
C30_ThreeAttempts ==
    /\ attempt <= 3 /\ rattempt <= 3
    /\ Writes(CC_SYNC) <= 3 /\ Writes(<<CC_NACK>>) <= 3
    /\ pkt # <<>> => Writes(pkt) <= 3
    /\ SyncGaveUp => Writes(CC_SYNC) = 3 /\ attempt = 3
    /\ SendGaveUp => Writes(pkt) = 3 /\ attempt = 3
    /\ RecvGaveUp => Writes(<<CC_NACK>>) = 3 /\ rattempt = 3
    /\ (op.name = "Sync" /\ pc = "sync_write") => Writes(CC_SYNC) = attempt /\ attempt < 3
    /\ pc = "send_write" => Writes(pkt) = attempt /\ attempt < 3
    /\ pc = "recv_size" => Writes(<<CC_NACK>>) = rattempt /\ rattempt < 3

\* BankErase wrote its frame three times, the third wait for the
\* acknowledgment timed out as well, and it returned ErrDevice
C30_Witness ==
    /\ op.name = "BankErase" /\ pc = "done" /\ ret.err = ErrDevice
    /\ attempt = 3 /\ wlog = <<pkt, pkt, pkt>>
    /\ ack = [b |-> 0, err |-> ErrDeviceTimeout]

(***************************************************************************)
(* The acknowledgments RecvPacket writes                                   *)
(***************************************************************************)
\* the positions in wlog of the one-byte writes: those of sendAck
AckWrites == {i \in 1..Len(wlog) : Len(wlog[i]) = 1}

\* the last Write was a sendAck of the byte b that returned nil
AckSent(b) ==
    /\ wlog # <<>> /\ wlog[Len(wlog)] = <<b>>
    /\ lastWrite = [err |-> ErrNil, n |-> 1]

\* the last Write was a sendAck that returned an error or a wrong length
AckFailed ==
    /\ wlog # <<>> /\ Len(wlog[Len(wlog)]) = 1
    /\ lastWrite # [err |-> ErrNil, n |-> 1]

\* C31: RecvPacket writes nothing but single ACK and NACK bytes, one for
\* each frame it received in full: while it receives, as many as frames it
\* refused; never more than 3; an ACK only as the last write of the call,
\* so no NACK follows an ACK; and it returns a payload exactly when its last
\* write was an ACK that the transport took.
C31_AckPerFrame ==
    (op.name = "RecvPacket" \/ op.name \in ReplyNames) =>
        /\ \A i \in AckWrites : wlog[i] \in {<<CC_ACK>>, <<CC_NACK>>}
        /\ \A i \in 1..Len(wlog) : i \notin AckWrites => wlog[i] = pkt /\ pkt # <<>>
        /\ Cardinality(AckWrites) <= 3
        /\ \A i \in AckWrites : wlog[i] = <<CC_ACK>> => i = Len(wlog) /\ pc = "done"
        /\ recvRet = ErrNil <=> AckSent(CC_ACK)
        /\ InRecv => Cardinality(AckWrites) = rattempt
        /\ (pc = "done" /\ recvRet # "none") =>
             Cardinality(AckWrites) =
                 IF AckSent(CC_ACK) \/ AckFailed THEN rattempt + 1 ELSE rattempt

\* RecvPacket refused two frames and accepted the third
C31_Witness ==
    /\ op.name = "RecvPacket" /\ pc = "done" /\ recvRet = ErrNil
    /\ wlog = << <<CC_NACK>>, <<CC_NACK>>, <<CC_ACK>> >>
    /\ rattempt = 2 /\ ret.err = ErrNil

(***************************************************************************)
(* Timeouts in RecvPacket                                                  *)
(***************************************************************************)
\* C32: when the wait for the size byte or for a byte inside a frame times
\* out (its 4th zero-length read), RecvPacket returns ErrDeviceTimeout at
\* once: nothing is written for the partial frame, the attempt counter does
\* not move, no further read is made and no byte read so far is returned;
\* and RecvPacket returns ErrDeviceTimeout in no other way.
C32_TimeoutReturned ==
    [][/\ (pc \in {"recv_size", "recv_byte"} /\ ReadTimedOut /\ ticks = 3) =>
            /\ recvRet' = ErrDeviceTimeout /\ pc' = "done"
            /\ ret' = [err |-> ErrDeviceTimeout, val |-> <<>>]
            /\ wlog' = wlog /\ rattempt' = rattempt
       /\ (recvRet' = ErrDeviceTimeout /\ recvRet = "none") =>
            /\ pc \in {"recv_size", "recv_byte"} /\ ReadTimedOut /\ ticks = 3
       /\ recvRet = ErrDeviceTimeout =>
            /\ pc = "done" /\ pc' = "idle"
            /\ Cardinality(AckWrites) = rattempt
            /\ \A i \in AckWrites : wlog[i] = <<CC_NACK>>
      ]_vars

\* RecvPacket had read the size byte 4 and one more byte when the wait for
\* the third byte timed out: it returned the timeout and wrote nothing
C32_Witness ==
    /\ op.name = "RecvPacket" /\ pc = "done"
    /\ recvRet = ErrDeviceTimeout /\ ret = [err |-> ErrDeviceTimeout, val |-> <<>>]
    /\ rbuf = <<4, 1>> /\ wlog = <<>> /\ rattempt = 0 /\ lastRead = NoRead

(***************************************************************************)
(* Short writes                                                            *)
(***************************************************************************)
\* the last Write returned no error and a length other than that of its buffer
WroteShort ==
    /\ wlog # <<>> /\ lastWrite.err = ErrNil
    /\ lastWrite.n # Len(wlog[Len(wlog)])

\* C33: a Write that returns no error and a length other than the length of
\* its buffer (the sync pattern, the frame, the ACK or NACK byte) ends the
\* operation with ErrSerial: the state after it is the return of that error,
\* so the write is not made again and no read follows it; the read count and
\* the attempt counters are those of before the write.
C33_ShortWrite ==
    [][/\ (/\ Len(wlog') = Len(wlog) + 1
           /\ lastWrite'.err = ErrNil
           /\ lastWrite'.n # Len(wlog'[Len(wlog')])) =>
            /\ pc' = "done" /\ ret' = [err |-> ErrSerial, val |-> <<>>]
            /\ UNCHANGED <<nreads, lastRead, attempt, rattempt>>
            /\ pc = "send_write" => sendRet' = ErrSerial /\ recvRet' = "none"
            /\ pc \in {"recv_nack", "recv_ack"} => recvRet' = ErrSerial
       /\ WroteShort =>
            /\ pc = "done" /\ ret.err = ErrSerial
            /\ pc' = "idle"
      ]_vars

\* GetStatus was acknowledged, its reply was accepted, and the Write of the
\* ACK byte returned 0 and no error
C33_Witness ==
    /\ op.name = "GetStatus" /\ pc = "done" /\ ret.err = ErrSerial
    /\ wlog = <<pkt, <<CC_ACK>> >> /\ lastWrite = [err |-> ErrNil, n |-> 0]
    /\ sendRet = ErrNil /\ recvRet = ErrSerial

(***************************************************************************)
(* The tick counter of recvNonZero                                         *)
(***************************************************************************)
\* recvNonZero is running: for SendPacket's acknowledgment or for
\* RecvPacket's size byte
InNonZero == pc \in {"send_ack", "recv_size"}

\* C34: in one call of recvNonZero the count of zero-length reads only
\* grows, by one for each zero-length read and not at all for a 0x00 byte
\* that is thrown away; the call returns ErrDeviceTimeout on its 4th
\* zero-length read, whatever 0x00 bytes came between; and each call (each
\* attempt of SendPacket, each wait of RecvPacket for a size byte) starts
\* with the count at 0.
C34_TickBudget ==
    [][/\ InNonZero => ticks <= 3
       /\ (InNonZero /\ ReadGave(0)) => pc' = pc /\ ticks' = ticks
       /\ (InNonZero /\ ReadTimedOut /\ ticks < 3) => pc' = pc /\ ticks' = ticks + 1
       /\ (pc = "send_ack" /\ ReadTimedOut /\ ticks = 3) =>
            /\ ack' = [b |-> 0, err |-> ErrDeviceTimeout]
            /\ attempt' = attempt + 1
       /\ (pc = "recv_size" /\ ReadTimedOut /\ ticks = 3) => recvRet' = ErrDeviceTimeout
       /\ (InNonZero /\ ack' # ack /\ ack'.err = ErrDeviceTimeout) => ticks = 3 /\ ReadTimedOut
       /\ (pc' \in {"send_ack", "recv_size"} /\ pc' # pc) => ticks' = 0
      ]_vars

\* in the second attempt of SendPacket three zero-length reads were counted
\* and a 0x00 byte has just been thrown away: the count is still 3
C34_Witness ==
    /\ pc = "send_ack" /\ attempt = 1 /\ ticks = 3 /\ Len(wlog) = 2
    /\ lastRead = [err |-> ErrNil, n |-> 1, data |-> <<0>>]

(***************************************************************************)
(* Properties of the command codec                                         *)
(***************************************************************************)
\* a sequence without its first element
DropFirst(s) == [i \in 1..(Len(s) - 1) |-> s[i + 1]]

\* C35: Unmarshal of a payload gives type = payload[0] and parameters =
\* payload[1:], and fails with ErrBadPacket on the empty payload; for every
\* command type and every parameter sequence of at most 252 bytes,
\* decodeCmdPacket of the frame encodeCmdPacket built returns no error and
\* the same type and parameters.
C35_CommandRoundTrip ==
    /\ (cpc = "decoded" /\ csrc = "data") =>
          IF cpayload = <<>>
          THEN cres.err = ErrBadPacket
          ELSE cres = [err |-> ErrNil,
                       cmd |-> [Type |-> cpayload[1], Parameters |-> DropFirst(cpayload)]]
    /\ (cpc = "encoded" /\ csrc = "command" /\ Len(ccmd.Parameters) <= 252) =>
          /\ Len(cframe) = Len(ccmd.Parameters) + 3
          /\ cframe[1] = Len(cframe)
          /\ cframe[3] = ccmd.Type
          /\ DropFirst(Rest(cframe)) = ccmd.Parameters
    /\ (cpc = "decoded" /\ csrc = "command" /\ Len(ccmd.Parameters) <= 252) =>
          cres = [err |-> ErrNil, cmd |-> ccmd]
    /\ (cpc = "decoded" /\ csrc = "frame" /\ cres.err = ErrNil) =>
          cres.cmd = [Type |-> cframe[3], Parameters |-> DropFirst(Rest(cframe))]

\* a Download command with 252 parameter bytes came back from its 255-byte
\* frame
C35_Witness ==
    /\ cpc = "decoded" /\ csrc = "command"
    /\ ccmd.Type = COMMAND_DOWNLOAD /\ Len(ccmd.Parameters) = 252
    /\ Len(cframe) = 255
    /\ cres = [err |-> ErrNil, cmd |-> ccmd]

====
